---- MODULE Spec2Model ----
(***************************************************************************)
(* TheVault: run ingestion (run.rs, vaultdb.rs), sample reconciliation     *)
(* (vaultdb.rs match_samples, samplesheet.rs from_xlsx), query             *)
(* (vaultdb.rs query, main.rs query) and export (samplesheet.rs            *)
(* write_csv / write_xlsx).                                                *)
(*                                                                         *)
(* Rust Strings are TLA+ strings; Option<T> is a sequence of length 0      *)
(* (None) or 1 (Some).  Every subsystem has its own specification over     *)
(* its own group of variables; the other groups stay at their idle value.  *)
(***************************************************************************)
EXTENDS Integers, Sequences, FiniteSets, TLC

VARIABLES
    \* ---- FastqAssigner (src/src/run.rs assign_fastqs)
    samples,        \* Vec<(NewSample, Vec<String>)>
    fastqs,         \* the candidate FASTQ relative paths handed to assign_fastqs
    a_pc,           \* "idle" | "parsed" | "done" | "panic"
    \* ---- Store and the update command (src/src/main.rs update, vaultdb.rs)
    tree,           \* the depth-3 entries under the run root
    db,             \* the committed rows: [run, sample, fastq]
    next_id,        \* the next value of the sample id sequence
    store0,         \* the committed rows when the running update command started
    u_count,        \* update commands started so far
    u_pc,           \* "idle" | "walk" | "build" | "done" | "build_panic" | "insert_panic"
    u_paths,        \* paths: Vec<String>, in the order the walk found them
    u_built,        \* per path: the outcome of Run::from_path, or pending
    \* ---- Re-import (src/src/samplesheet.rs from_xlsx, vaultdb.rs match_samples)
    m_store,        \* the sample table, in id order
    m_header,       \* the first row of the spreadsheet
    m_rows,         \* the data rows, each as long as the header
    m_pc,           \* "idle" | "open" | "rows" | "done" | "err" | "panic"
    m_k,            \* the row the loop is at
    m_entries,      \* result.entries
    m_calls,        \* the calls of match_samples so far: [args, res]
    \* ---- Query command (src/src/main.rs query, vaultdb.rs query)
    q_store,        \* the samples with their fastq filenames
    q_args,         \* the command line: [lines, filter, limit]
    q_queries,      \* queries: Vec<String>
    q_filters,      \* filters: HashMap<String, String>
    q_pc,           \* "idle" | "args" | "queries" | "done" | "panic"
    q_k,            \* the query the loop is at
    q_candidates,   \* candidates: the samples collected so far
    q_calls,        \* the calls of vaultdb::query so far: [needle, res]
    \* ---- Export (src/src/samplesheet.rs write_csv, write_xlsx)
    x_entries,      \* entries: Vec<SampleSheetEntry>
    x_overrides,    \* overrides: the column names given
    x_separator,    \* separator of write_csv
    x_csv,          \* Option: the text write_csv wrote
    x_sheet,        \* Option: the cells write_xlsx wrote, by row and column
    \* ---- FASTQ extraction (src/src/samplesheet.rs extract_fastqs)
    t_entries,      \* entries with the fastq paths of their sample
    t_broken,       \* the <<run, file>> that cannot be read
    t_db,           \* "ok" | "no_runs" | "no_files": which query of the store fails
    t_pc,           \* "idle" | "ready" | "running" | "done" | "panic"
    t_pos,          \* for each worker, the fastq of its entry it is at
    t_writes,       \* the files written so far: [worker, source, target]
    t_logged,       \* the workers that logged an error
    t_result,       \* Option: what extract_fastqs returned
    \* ---- RunWalker (src/vquery/src/runwalker.rs)
    w_tree,         \* the entries under the root, the root included
    w_start,        \* start_date: Option<Date>
    w_pc,           \* "idle" | "ready" | "walking" | "done" | "panic"
    w_stack,        \* the entries WalkDir has still to yield, next first
    w_sent,         \* the entries sent to the channel
    \* ---- One run from its path to the store (src/src/run.rs from_path)
    r_entry,        \* the depth-3 entry: a run directory with its sheets
    r_pc,           \* "idle" | "ready" | "built" | "done" | "panic"
    r_out,          \* the result of Run::from_path: [status, run]
    r_db,           \* the store after the transaction
    \* ---- Parsing of run dates (src/src/run.rs, src/vquery/src/runwalker.rs)
    d_name,         \* the name that is parsed
    d_res,          \* Option: the result of parse_date of run.rs
    d_wres,         \* Option: the result of parse_date of runwalker.rs
    \* ---- Normalization of DNA numbers (samplesheet.rs, sample.rs)
    n_input,        \* the text that is normalized
    n_res,          \* Option: the result of normalize_dna_nr of samplesheet.rs
    n_again,        \* Option: the result of normalizing that result
    n_sres,         \* Option: the result of normalize_dna_nr of sample.rs
    \* ---- The channel of the walker (src/vquery/src/runwalker.rs Walker)
    c_cap,          \* upper_bound: the capacity of the channel
    c_paths,        \* the paths of depth 3 the walk yields, in order
    c_pc,           \* "idle" | "new" | "running" | "returned"
    c_sent,         \* the number of paths run has sent
    c_chan,         \* the messages queued in the channel
    c_rx,           \* per receiver: "reading" | "returned"
    c_got,          \* the messages received: [receiver, path]
    \* ---- The choice of the cell sheet (src/src/run.rs find_cellsheet)
    k_cands,        \* the spikeINBC files in the order the walk yields them
    k_pc,           \* "idle" | "ready" | "done"
    k_picked        \* Option: the file find_cellsheet returned

assignVars == <<samples, fastqs, a_pc>>
storeVars == <<tree, db, next_id, store0, u_count, u_pc, u_paths, u_built>>

matchVars == <<m_store, m_header, m_rows, m_pc, m_k, m_entries, m_calls>>

queryVars == <<q_store, q_args, q_queries, q_filters, q_pc, q_k, q_candidates, q_calls>>

exportVars == <<x_entries, x_overrides, x_separator, x_csv, x_sheet>>

extractVars == <<t_entries, t_broken, t_db, t_pc, t_pos, t_writes, t_logged, t_result>>

walkVars == <<w_tree, w_start, w_pc, w_stack, w_sent>>

runVars == <<r_entry, r_pc, r_out, r_db>>
dateVars == <<d_name, d_res, d_wres>>
dnaVars == <<n_input, n_res, n_again, n_sres>>
channelVars == <<c_cap, c_paths, c_pc, c_sent, c_chan, c_rx, c_got>>
cellsheetVars == <<k_cands, k_pc, k_picked>>

vars == <<assignVars, storeVars, matchVars, queryVars, exportVars, extractVars, walkVars, runVars, dateVars, dnaVars, channelVars, cellsheetVars>>

\* the groups a specification leaves alone
notAssign == <<storeVars, matchVars, queryVars, exportVars, extractVars, walkVars, runVars, dateVars, dnaVars, channelVars, cellsheetVars>>
notStore == <<assignVars, matchVars, queryVars, exportVars, extractVars, walkVars, runVars, dateVars, dnaVars, channelVars, cellsheetVars>>
notMatch == <<assignVars, storeVars, queryVars, exportVars, extractVars, walkVars, runVars, dateVars, dnaVars, channelVars, cellsheetVars>>
notQuery == <<assignVars, storeVars, matchVars, exportVars, extractVars, walkVars, runVars, dateVars, dnaVars, channelVars, cellsheetVars>>
notExtract == <<assignVars, storeVars, matchVars, queryVars, exportVars, walkVars, runVars, dateVars, dnaVars, channelVars, cellsheetVars>>
notWalk == <<assignVars, storeVars, matchVars, queryVars, exportVars, extractVars, runVars, dateVars, dnaVars, channelVars, cellsheetVars>>
notRun == <<assignVars, storeVars, matchVars, queryVars, exportVars, extractVars, walkVars, dateVars, dnaVars, channelVars, cellsheetVars>>
notDate == <<assignVars, storeVars, matchVars, queryVars, exportVars, extractVars, walkVars, runVars, dnaVars, channelVars, cellsheetVars>>
notDna == <<assignVars, storeVars, matchVars, queryVars, exportVars, extractVars, walkVars, runVars, dateVars, channelVars, cellsheetVars>>
notChannel == <<assignVars, storeVars, matchVars, queryVars, exportVars, extractVars, walkVars, runVars, dateVars, dnaVars, cellsheetVars>>
notCellsheet == <<assignVars, storeVars, matchVars, queryVars, exportVars, extractVars, walkVars, runVars, dateVars, dnaVars, channelVars>>
notExport == <<assignVars, storeVars, matchVars, queryVars, extractVars, walkVars, runVars, dateVars, dnaVars, channelVars, cellsheetVars>>

(***************************************************************************)
(* Option and string helpers (std)                                         *)
(***************************************************************************)
None == <<>>
Some(x) == <<x>>
IsSome(o) == Len(o) = 1
Unwrap(o) == o[1]

(***************************************************************************)
(* Idle values of the variable groups                                      *)
(***************************************************************************)
EmptyStore == [run |-> {}, sample |-> {}, fastq |-> {}]

AssignIdle == samples = <<>> /\ fastqs = <<>> /\ a_pc = "idle"

StoreIdle ==
    /\ tree = {}
    /\ db = EmptyStore
    /\ next_id = 1
    /\ store0 = EmptyStore
    /\ u_count = 0
    /\ u_pc = "idle"
    /\ u_paths = <<>>
    /\ u_built = <<>>

MatchIdle ==
    /\ m_store = <<>>
    /\ m_header = <<>>
    /\ m_rows = <<>>
    /\ m_pc = "idle"
    /\ m_k = 0
    /\ m_entries = <<>>
    /\ m_calls = <<>>

QueryIdle ==
    /\ q_store = {}
    /\ q_args = <<>>
    /\ q_queries = <<>>
    /\ q_filters = <<>>
    /\ q_pc = "idle"
    /\ q_k = 0
    /\ q_candidates = {}
    /\ q_calls = <<>>

ExportIdle ==
    /\ x_entries = <<>>
    /\ x_overrides = {}
    /\ x_separator = ""
    /\ x_csv = None
    /\ x_sheet = None

ExtractIdle ==
    /\ t_entries = <<>>
    /\ t_broken = {}
    /\ t_db = "ok"
    /\ t_pc = "idle"
    /\ t_pos = <<>>
    /\ t_writes = <<>>
    /\ t_logged = {}
    /\ t_result = None

WalkIdle ==
    /\ w_tree = {}
    /\ w_start = None
    /\ w_pc = "idle"
    /\ w_stack = <<>>
    /\ w_sent = <<>>

RunIdle ==
    /\ r_entry = <<>>
    /\ r_pc = "idle"
    /\ r_out = <<>>
    /\ r_db = <<>>

DateIdle ==
    /\ d_name = ""
    /\ d_res = <<>>
    /\ d_wres = <<>>

DnaIdle ==
    /\ n_input = ""
    /\ n_res = <<>>
    /\ n_again = <<>>
    /\ n_sres = <<>>

ChannelIdle ==
    /\ c_cap = 0
    /\ c_paths = <<>>
    /\ c_pc = "idle"
    /\ c_sent = 0
    /\ c_chan = <<>>
    /\ c_rx = <<>>
    /\ c_got = <<>>

CellsheetIdle ==
    /\ k_cands = <<>>
    /\ k_pc = "idle"
    /\ k_picked = <<>>

\* the character at index i (1-based), "" outside the string
CharAt(s, i) == IF i >= 1 /\ i <= Len(s) THEN SubSeq(s, i, i) ELSE ""

\* str::contains
Contains(s, t) == \E i \in 0..(Len(s) - Len(t)) : SubSeq(s, i + 1, i + Len(t)) = t

\* str::starts_with / ends_with
StartsWith(s, t) == Len(t) <= Len(s) /\ SubSeq(s, 1, Len(t)) = t
EndsWith(s, t) == Len(t) <= Len(s) /\ SubSeq(s, Len(s) - Len(t) + 1, Len(s)) = t

Digits == "0123456789"
DigitSet == {CharAt(Digits, d) : d \in 1..10}
DigitValues == [c \in DigitSet |-> (CHOOSE d \in 1..10 : CharAt(Digits, d) = c) - 1]
IsDigit(c) == c \in DigitSet
DigitVal(c) == DigitValues[c]
DigitChar(n) == CharAt(Digits, n + 1)

LowerLetters == "abcdefghijklmnopqrstuvwxyz"
UpperLetters == "ABCDEFGHIJKLMNOPQRSTUVWXYZ"
LowerSet == {CharAt(LowerLetters, k) : k \in 1..26}
UpperSet == {CharAt(UpperLetters, k) : k \in 1..26}
UpperOf == [c \in LowerSet |-> CharAt(UpperLetters, CHOOSE k \in 1..26 : CharAt(LowerLetters, k) = c)]
LowerOf == [c \in UpperSet |-> CharAt(LowerLetters, CHOOSE k \in 1..26 : CharAt(UpperLetters, k) = c)]
\* ASCII case mapping of one character
UpperChar(c) == IF c \in LowerSet THEN UpperOf[c] ELSE c
LowerChar(c) == IF c \in UpperSet THEN LowerOf[c] ELSE c

RECURSIVE MapChars(_, _)
MapChars(s, up) ==
    IF Len(s) = 0 THEN ""
    ELSE (IF up THEN UpperChar(Head(s)) ELSE LowerChar(Head(s))) \o MapChars(Tail(s), up)
ToUpper(s) == MapChars(s, TRUE)
ToLower(s) == MapChars(s, FALSE)

\* str::replace for a one-character pattern
RECURSIVE ReplaceChar(_, _, _)
ReplaceChar(s, from, to) ==
    IF Len(s) = 0 THEN ""
    ELSE (IF Head(s) = from THEN to ELSE Head(s)) \o ReplaceChar(Tail(s), from, to)

\* index of the first occurrence of the one-character string c at or after i; 0 if none
RECURSIVE FirstIndexFrom(_, _, _)
FirstIndexFrom(s, c, i) ==
    IF i > Len(s) THEN 0
    ELSE IF CharAt(s, i) = c THEN i
    ELSE FirstIndexFrom(s, c, i + 1)

\* str::split on a one-character separator
RECURSIVE Split(_, _)
Split(s, sep) ==
    LET k == FirstIndexFrom(s, sep, 1) IN
    IF k = 0 THEN <<s>>
    ELSE <<SubSeq(s, 1, k - 1)>> \o Split(SubSeq(s, k + 1, Len(s)), sep)

AllDigits(s) == \A k \in 1..Len(s) : IsDigit(CharAt(s, k))

RECURSIVE DigitsValue(_)
DigitsValue(s) ==
    IF Len(s) = 0 THEN 0
    ELSE 10 * DigitsValue(SubSeq(s, 1, Len(s) - 1)) + DigitVal(CharAt(s, Len(s)))

\* u32::MAX in decimal
U32MaxDigits == "4294967295"

RECURSIVE StripZeros(_)
StripZeros(s) == IF Len(s) > 1 /\ Head(s) = "0" THEN StripZeros(Tail(s)) ELSE s

\* numeric order of two digit strings of the same length
RECURSIVE DigitsLeq(_, _)
DigitsLeq(a, b) ==
    IF Len(a) = 0 THEN TRUE
    ELSE IF DigitVal(Head(a)) # DigitVal(Head(b)) THEN DigitVal(Head(a)) < DigitVal(Head(b))
    ELSE DigitsLeq(Tail(a), Tail(b))

\* str::parse::<u32>: an optional "+", then one or more digits, the value
\* within u32.  The number is kept as its decimal digits without leading
\* zeros, which is also its Display.
ParseU32(s) ==
    LET body == IF StartsWith(s, "+") THEN Tail(s) ELSE s
        canon == StripZeros(body)
    IN  IF /\ Len(body) > 0
           /\ AllDigits(body)
           /\ \/ Len(canon) < Len(U32MaxDigits)
              \/ Len(canon) = Len(U32MaxDigits) /\ DigitsLeq(canon, U32MaxDigits)
        THEN Some(canon)
        ELSE None

\* Display of a non-negative integer
RECURSIVE NatToString(_)
NatToString(n) ==
    IF n < 10 THEN DigitChar(n) ELSE NatToString(n \div 10) \o DigitChar(n % 10)

\* Display of an integer (i32 / i64)
IntToString(n) == IF n < 0 THEN "-" \o NatToString(0 - n) ELSE NatToString(n)

\* format!("{:0w}", n) for an unsigned n given by its Display
RECURSIVE FormatPadded(_, _)
FormatPadded(s, w) == IF Len(s) >= w THEN s ELSE FormatPadded("0" \o s, w)

(***************************************************************************)
(* PathClassifier and name decomposition (src/src/run.rs)                  *)
(***************************************************************************)
NewSample(run, name, project) ==
    [run |-> run, name |-> name, dna_nr |-> None, project |-> project,
     lims_id |-> None, primer_set |-> None, cells |-> None]

is_fastq(s) ==
    /\ EndsWith(s, ".fastq.gz")
    /\ ~Contains(s, "Data")
    /\ ~Contains(s, "Undetermined")
    /\ ~Contains(s, "Archiv_")

\* format!("{:02}-{:05}", ..) of the two parsed parts; unwrap() panics on None
FormatDnaNr(year, number) ==
    IF year = None \/ number = None THEN [status |-> "panic", value |-> None]
    ELSE [status |-> "ok",
          value |-> Some(FormatPadded(Unwrap(year), 2) \o "-" \o FormatPadded(Unwrap(number), 5))]

NormalizeParts(parts) ==
    IF Len(parts) # 2 THEN [status |-> "ok", value |-> None]
    ELSE FormatDnaNr(ParseU32(parts[1]), ParseU32(parts[2]))

\* normalize_dna_nr of src/src/samplesheet.rs: [status, value]; value is an
\* Option<String>; the two unwrap() calls panic when a part is no u32.
normalize_dna_nr(dnanr) ==
    NormalizeParts(Split(IF StartsWith(dnanr, "D-") THEN SubSeq(dnanr, 3, Len(dnanr)) ELSE dnanr, "-"))

\* RE_DNA = (?:D-)?(?P<dnanr>\d\d-\d{3,}): does \d\d-\d\d\d start at position i
DnaAt(s, i) ==
    /\ i + 5 <= Len(s)
    /\ IsDigit(CharAt(s, i)) /\ IsDigit(CharAt(s, i + 1))
    /\ CharAt(s, i + 2) = "-"
    /\ \A k \in (i + 3)..(i + 5) : IsDigit(CharAt(s, k))

\* the leftmost position at or after i where the pattern starts; 0 if none
RECURSIVE FirstDnaFrom(_, _)
FirstDnaFrom(s, i) ==
    IF i > Len(s) THEN 0
    ELSE IF DnaAt(s, i) THEN i
    ELSE FirstDnaFrom(s, i + 1)

\* the last index of the run of digits that holds index e
RECURSIVE DigitRunEnd(_, _)
DigitRunEnd(s, e) == IF IsDigit(CharAt(s, e + 1)) THEN DigitRunEnd(s, e + 1) ELSE e

\* the capture group dnanr of the leftmost match, the digits taken greedily
RE_DNA(s) ==
    LET i == FirstDnaFrom(s, 1) IN
    IF i = 0 THEN None ELSE Some(SubSeq(s, i, DigitRunEnd(s, i + 5)))

\* RE_PRIMER = _(?i)(?P<primer>IGH.*?|IGK.*?|FR.*?|Fr.*?|DJ|TRD.*?|TRB.*?|TRG.*?)(_|$)
PrimerPrefixes == {"IGH", "IGK", "FR", "TRD", "TRB", "TRG"}

\* the text after the underscore at i can start a match of the alternation
PrimerAt(s, i) ==
    LET rest == SubSeq(s, i + 1, Len(s))
        head == ToUpper(SubSeq(s, i + 1, IF i + 3 <= Len(s) THEN i + 3 ELSE Len(s)))
    IN
    /\ CharAt(s, i) = "_"
    /\ \/ \E p \in PrimerPrefixes : StartsWith(head, p)
       \/ /\ StartsWith(head, "DJ")
          /\ (Len(rest) = 2 \/ CharAt(rest, 3) = "_")

RECURSIVE FirstPrimerFrom(_, _)
FirstPrimerFrom(s, i) ==
    IF i > Len(s) THEN 0
    ELSE IF PrimerAt(s, i) THEN i
    ELSE FirstPrimerFrom(s, i + 1)

\* the capture group primer of the leftmost match: a lazy .*? stops at the
\* first underscore or at the end of the string
RE_PRIMER(s) ==
    LET i == FirstPrimerFrom(s, 1) IN
    IF i = 0 THEN None
    ELSE LET rest == SubSeq(s, i + 1, Len(s))
             head == ToUpper(SubSeq(rest, 1, IF Len(rest) >= 3 THEN 3 ELSE Len(rest)))
             plen == IF \E p \in PrimerPrefixes : StartsWith(head, p)
                     THEN Len(CHOOSE p \in PrimerPrefixes : StartsWith(head, p))
                     ELSE 2
             stop == FirstIndexFrom(rest, "_", plen + 1)
         IN  Some(IF stop = 0 THEN rest ELSE SubSeq(rest, 1, stop - 1))

\* the sample with the decomposition stored, or the panic of normalize_dna_nr
Decomposed(s, norm, primer) ==
    IF norm.status = "panic" THEN [status |-> "panic", s |-> s]
    ELSE [status |-> "ok",
          s |-> [s EXCEPT !.dna_nr = norm.value,
                          !.primer_set = IF IsSome(primer) THEN primer ELSE @]]

NormalizeCapture(s, dna) ==
    IF IsSome(dna) THEN normalize_dna_nr(Unwrap(dna)) ELSE [status |-> "ok", value |-> s.dna_nr]

DecomposeName(s, oldname) ==
    Decomposed(s, NormalizeCapture(s, RE_DNA(oldname)), RE_PRIMER(oldname))

\* parse_samplename: [status, s]; the name itself is left as it is
parse_samplename(s) == DecomposeName(s, ReplaceChar(s.name, " ", "_"))

\* RE_NAME = (?P<name>.*?)_S\d+_.*\.fastq\.gz$: the text from position k + 1 on
\* matches _S\d+_.*\.fastq\.gz$
NameTailAt(s, k) ==
    /\ CharAt(s, k + 1) = "_"
    /\ CharAt(s, k + 2) = "S"
    /\ IsDigit(CharAt(s, k + 3))
    /\ LET e == DigitRunEnd(s, k + 3) IN
          /\ CharAt(s, e + 1) = "_"
          /\ EndsWith(SubSeq(s, e + 2, Len(s)), ".fastq.gz")

\* the smallest k at or after k0 with a matching tail; Len(s) + 1 if none
RECURSIVE FirstNameTailFrom(_, _)
FirstNameTailFrom(s, k) ==
    IF k > Len(s) THEN k
    ELSE IF NameTailAt(s, k) THEN k
    ELSE FirstNameTailFrom(s, k + 1)

\* the capture group name: the shortest prefix after which the tail matches
RE_NAME(s) ==
    LET k == FirstNameTailFrom(s, 0) IN
    IF k > Len(s) THEN None ELSE Some(SubSeq(s, 1, k))

\* Path::components of a relative path, empty components dropped
PathComponents(p) == SelectSeq(Split(p, "/"), LAMBDA c : c # "")

(***************************************************************************)
(* FastqAssigner (src/src/run.rs)                                          *)
(***************************************************************************)
\* the sample parse_from_fastq makes of the file name: the name captured by
\* RE_NAME and decomposed, or "Unknown"; [status, s]
OrphanFromCaptures(captures, project, run_name) ==
    IF IsSome(captures)
    THEN parse_samplename(NewSample("", Unwrap(captures), project))
    ELSE [status |-> "ok", s |-> NewSample(run_name, "Unknown", project)]

\* the project is the parent directory when that starts with data_
OrphanProject(dir_name) == IF StartsWith(dir_name, "data_") THEN Some(dir_name) ELSE None

OrphanSample(comps, run_name) ==
    OrphanFromCaptures(RE_NAME(comps[Len(comps)]), OrphanProject(comps[Len(comps) - 1]), run_name)

\* the merge key of parse_from_fastq
SameSample(a, b) ==
    /\ a.name = b.name
    /\ a.dna_nr = b.dna_nr
    /\ a.primer_set = b.primer_set
    /\ a.project = b.project

\* the first sample at or after k with the merge key of s; 0 if none
RECURSIVE FirstSame(_, _, _)
FirstSame(smpls, s, k) ==
    IF k > Len(smpls) THEN 0
    ELSE IF SameSample(smpls[k].s, s) THEN k
    ELSE FirstSame(smpls, s, k + 1)

\* merge if there is already such a sample (at k), else push a new one
MergeOrPush_push(smpls, fastq, s, k) == Append(smpls, [s |-> s, files |-> <<fastq>>])
MergeOrPush(smpls, fastq, s, k) ==
    IF k = 0 THEN Append(smpls, [s |-> s, files |-> <<fastq>>])
    ELSE [smpls EXCEPT ![k].files = Append(@, fastq)]

PlaceOrphan(smpls, fastq, parsed) ==
    IF parsed.status = "panic" THEN [status |-> "panic", samples |-> smpls]
    ELSE [status |-> "ok",
          samples |-> MergeOrPush(smpls, fastq, parsed.s, FirstSame(smpls, parsed.s, 1))]

\* both file_name().unwrap() calls panic on a path that lacks the component
ParseFromComponents(smpls, fastq, comps, run_name) ==
    IF Len(comps) < 2 THEN [status |-> "panic", samples |-> smpls]
    ELSE PlaceOrphan(smpls, fastq, OrphanSample(comps, run_name))

\* parse_from_fastq: the sample list after the orphan file fastq was placed;
\* [status, samples]
parse_from_fastq(smpls, fastq, run_name) ==
    ParseFromComponents(smpls, fastq, PathComponents(fastq), run_name)

match_fastq(sample, fastq) ==
    IF IsSome(sample.dna_nr)
    THEN IF IsSome(sample.primer_set)
         THEN Contains(fastq, Unwrap(sample.dna_nr)) /\ Contains(fastq, Unwrap(sample.primer_set))
         ELSE Contains(fastq, Unwrap(sample.dna_nr))
    ELSE Contains(fastq, sample.name)

\* the files of `work` that sample i takes, in index order
MyFastqs(s, work) == SelectSeq(work, LAMBDA f : match_fastq(s, f))

\* a variant that leaves the matched names in the working list
ClearMatched_kept(s, work) == work

\* the working list after the files of sample s were reset
ClearMatched(s, work) == [k \in 1..Len(work) |-> IF match_fastq(s, work[k]) THEN "" ELSE work[k]]

\* the loop over samples.iter_mut() from sample i on: [samples, fastqs]
RECURSIVE MatchLoop(_, _, _)
MatchLoop(smpls, work, i) ==
    IF i > Len(smpls) THEN [samples |-> smpls, fastqs |-> work]
    ELSE MatchLoop([smpls EXCEPT ![i].files = @ \o MyFastqs(smpls[i].s, work)],
                   ClearMatched(smpls[i].s, work), i + 1)

\* the loop over the remaining, non-empty names from index k on
RECURSIVE OrphanLoop(_, _, _, _)
RECURSIVE OrphanStep(_, _, _, _)
OrphanLoop(smpls, work, k, run_name) ==
    IF k > Len(work) THEN [status |-> "ok", samples |-> smpls]
    ELSE IF work[k] = "" THEN OrphanLoop(smpls, work, k + 1, run_name)
    ELSE OrphanStep(parse_from_fastq(smpls, work[k], run_name), work, k, run_name)

\* a panic ends the loop, otherwise it goes on with the next name
OrphanStep(r, work, k, run_name) ==
    IF r.status = "panic" THEN r
    ELSE OrphanLoop(r.samples, work, k + 1, run_name)

IndexOrders(n) == {p \in [1..n -> 1..n] : \A a, b \in 1..n : p[a] = p[b] => a = b}

\* the orders sort_unstable_by_key(name.len()) followed by reverse() may leave:
\* descending name length, ties in any order
SortedOrders(smpls) ==
    {[k \in 1..Len(smpls) |-> smpls[p[k]]] : p \in
        {q \in IndexOrders(Len(smpls)) :
            \A a, b \in 1..Len(smpls) :
                a < b => Len(smpls[q[a]].s.name) >= Len(smpls[q[b]].s.name)}}

\* the second half of assign_fastqs: samples recovered from the unmatched names
RecoverOrphans(m, run_name) == OrphanLoop(m.samples, m.fastqs, 1, run_name)

\* assign_fastqs on the samples in the order `sorted`
assign_fastqs(sorted, files, run_name) ==
    RecoverOrphans(MatchLoop(sorted, files, 1), run_name)

(***************************************************************************)
(* Specification of the FastqAssigner: the inputs are drawn from the       *)
(* sample-sheet rows and FASTQ paths below, then assign_fastqs runs.       *)
(***************************************************************************)
MaxSamples == 2
MaxFastqs == 3

RunName == "210802_M1_0001"

\* sample-sheet rows as (Sample_ID, Sample_Project)
DeclaredRows ==
    { <<"A", "">>, <<"AB", "">>, <<"21-123_FR1", "">>,
      <<"21-123_FR1", "data_p">>, <<"22-456", "">>, <<"FR1", "">> }

\* relative paths as from_dir / from_zip list them
FastqUniverse ==
    { "x/AB_S1_R.fastq.gz", "x/A_S2_R.fastq.gz", "data_p/21-123_FR1_S3_R.fastq.gz",
      "x/22-00456.fastq.gz", "Q_S4_R.fastq.gz" }

\* what parse_samplesheet pushes for a row: project, name, then parse_samplename
SheetParsed(name, project) ==
    parse_samplename(NewSample("", name, IF project # "" THEN Some(project) ELSE None))

SheetSample(name, project, run_name) ==
    [s |-> [SheetParsed(name, project).s EXCEPT !.run = run_name], files |-> <<>>]

ParsedSamples == {SheetSample(r[1], r[2], RunName) : r \in DeclaredRows}

SeqsUpTo(S, n) == UNION {[1..k -> S] : k \in 0..n}
DistinctSeqsUpTo(S, n) == {q \in SeqsUpTo(S, n) : \A a, b \in 1..Len(q) : q[a] = q[b] => a = b}

AssignInit ==
    /\ a_pc = "parsed"
    /\ samples \in SeqsUpTo(ParsedSamples, MaxSamples)
    /\ fastqs \in DistinctSeqsUpTo({f \in FastqUniverse : is_fastq(f)}, MaxFastqs)
    /\ StoreIdle
    /\ MatchIdle
    /\ QueryIdle
    /\ ExportIdle
    /\ ExtractIdle
    /\ WalkIdle
    /\ RunIdle
    /\ DateIdle
    /\ DnaIdle
    /\ ChannelIdle
    /\ CellsheetIdle

\* the run's samples once assign_fastqs returned r, or the panic it raised
AssignReturns(r) ==
    /\ samples' = r.samples
    /\ a_pc' = IF r.status = "ok" THEN "done" ELSE "panic"

\* parse_samplesheet's call of assign_fastqs (run.rs:393)
AssignFastqs ==
    /\ a_pc = "parsed"
    /\ \E sorted \in SortedOrders(samples) :
          AssignReturns(assign_fastqs(sorted, fastqs, RunName))
    /\ UNCHANGED fastqs
    /\ UNCHANGED notAssign

AssignNext == AssignFastqs

SpecAssign == AssignInit /\ [][AssignNext]_vars

RECURSIVE Flatten(_)
Flatten(ss) == IF Len(ss) = 0 THEN <<>> ELSE Head(ss) \o Flatten(Tail(ss))

Count(q, x) == Cardinality({k \in 1..Len(q) : q[k] = x})

\* every file list of the run, concatenated
AssignedFiles == Flatten([k \in 1..Len(samples) |-> samples[k].files])

\* C1: after assign_fastqs the file lists of all samples, declared and
\* synthesized, hold the same multiset of filenames as the input list: each
\* input file is attached to exactly one sample, none is lost, none duplicated.
C1_FilesPreserved ==
    a_pc = "done" =>
        /\ Len(AssignedFiles) = Len(fastqs)
        /\ \A k \in 1..Len(AssignedFiles) :
              Count(AssignedFiles, AssignedFiles[k]) = Count(fastqs, AssignedFiles[k])
        /\ \A k \in 1..Len(fastqs) :
              Count(AssignedFiles, fastqs[k]) = Count(fastqs, fastqs[k])

\* a run where one declared sample took a file by name, another file went to
\* a synthesized sample, and a third was merged into a declared sample
C1_Witness ==
    /\ a_pc = "done"
    /\ Len(fastqs) = 3
    /\ \E k \in 1..Len(samples) :
          samples[k].s.name = "AB" /\ samples[k].s.run = RunName /\ Len(samples[k].files) = 1
    /\ \E k \in 1..Len(samples) :
          samples[k].s.name = "21-123_FR1" /\ samples[k].s.run = RunName /\ Len(samples[k].files) = 1
    /\ \E k \in 1..Len(samples) : samples[k].s.name = "Unknown"

(***************************************************************************)
(* Run construction (src/src/run.rs): parse_date, parse_samplesheet,       *)
(* find_cellsheet, parse_cellsheet, from_dir, from_zip, from_path.         *)
(* A result is a record whose status is "ok", "err" (Result::Err) or       *)
(* "panic".                                                                *)
(***************************************************************************)
\* two decimal digits as a number
TwoDigits(s) ==
    IF IsDigit(CharAt(s, 1)) /\ IsDigit(CharAt(s, 2))
    THEN Some(10 * DigitVal(CharAt(s, 1)) + DigitVal(CharAt(s, 2)))
    ELSE None

\* a sign and one digit
SignedDigit(s, minus) ==
    IF ~IsDigit(CharAt(s, 2)) THEN None
    ELSE IF CharAt(s, 1) = "+" THEN Some(DigitVal(CharAt(s, 2)))
    ELSE IF minus /\ CharAt(s, 1) = "-" THEN Some(0 - DigitVal(CharAt(s, 2)))
    ELSE None

\* source[a..b].parse::<i32>() and ::<u32>() of a two-character slice
ParseI32Slice(s) == IF IsDigit(CharAt(s, 1)) THEN TwoDigits(s) ELSE SignedDigit(s, TRUE)
ParseU32Slice(s) == IF IsDigit(CharAt(s, 1)) THEN TwoDigits(s) ELSE SignedDigit(s, FALSE)

IsLeapYear(y) == (y % 4 = 0 /\ y % 100 # 0) \/ y % 400 = 0

DaysInMonth(y, m) ==
    IF m \in {4, 6, 9, 11} THEN 30
    ELSE IF m = 2 THEN (IF IsLeapYear(y) THEN 29 ELSE 28)
    ELSE 31

\* chrono::NaiveDate::from_ymd panics on an invalid calendar date
from_ymd(y, m, d) ==
    IF m \in 1..12 /\ d >= 1 /\ d <= DaysInMonth(y, m)
    THEN [status |-> "ok", date |-> <<y, m, d>>]
    ELSE [status |-> "panic", date |-> <<>>]

DateFromParts(year, month, day) ==
    IF year = None \/ month = None \/ day = None
    THEN [status |-> "err", date |-> <<>>]
    ELSE from_ymd(Unwrap(year) + 2000, Unwrap(month), Unwrap(day))

parse_date(source) ==
    IF Len(source) < 6 THEN [status |-> "err", date |-> <<>>]
    ELSE DateFromParts(ParseI32Slice(SubSeq(source, 1, 2)),
                       ParseU32Slice(SubSeq(source, 3, 4)),
                       ParseU32Slice(SubSeq(source, 5, 6)))

\* i64::MAX in decimal
I64MaxDigits == "9223372036854775807"

\* parts[9].parse::<i64>() kept when it is positive; the id as decimal digits
CanonLimsId(canon) ==
    IF canon # "0" /\ (Len(canon) < Len(I64MaxDigits)
                        \/ (Len(canon) = Len(I64MaxDigits) /\ DigitsLeq(canon, I64MaxDigits)))
    THEN Some(canon) ELSE None

LimsDigits(body) ==
    IF Len(body) > 0 /\ AllDigits(body) THEN CanonLimsId(StripZeros(body)) ELSE None

SheetLimsId(field) == LimsDigits(IF StartsWith(field, "+") THEN Tail(field) ELSE field)

\* a [Data] row is [cols, name, project, lims]: the number of its fields, its
\* Sample_ID, its Sample_Project and its tenth field
DataColumns_eight == {6, 7, 8, 9, 10}
DataColumns == {6, 7, 9, 10}

\* the sample a row of 6, 7, 9 or 10 fields declares
RowSample(parsed, lims, run_name) ==
    [s |-> [parsed.s EXCEPT !.run = run_name, !.lims_id = lims], files |-> <<>>]

\* push unless the name is empty
PushRow(acc, row, parsed, cols, run_name) ==
    IF row.name = "" THEN acc
    ELSE Append(acc, RowSample(parsed, IF cols = 10 THEN SheetLimsId(row.lims) ELSE None, run_name))

\* the CSV part of parse_samplesheet from row k on: [status, samples]
RECURSIVE DataRows(_, _, _, _)
RECURSIVE DataRowParsed(_, _, _, _, _)
DataRows(rows, k, acc, run_name) ==
    IF k > Len(rows) THEN [status |-> "ok", samples |-> acc]
    ELSE IF ToLower(rows[k].name) = "sample_id" \/ rows[k].cols < 2
         THEN DataRows(rows, k + 1, acc, run_name)
    ELSE IF rows[k].cols < 10 /\ rows[k].cols \notin DataColumns
         THEN [status |-> "err", samples |-> acc]
    ELSE DataRowParsed(rows, k, acc, run_name, SheetParsed(rows[k].name, rows[k].project))

DataRowParsed(rows, k, acc, run_name, parsed) ==
    IF parsed.status = "panic" THEN [status |-> "panic", samples |-> acc]
    ELSE DataRows(rows, k + 1,
                  PushRow(acc, rows[k], parsed, IF rows[k].cols > 10 THEN 10 ELSE rows[k].cols,
                          run_name),
                  run_name)

\* the outcomes of assign_fastqs over the declared samples, one per order the
\* sort may leave
AssignOutcomes(declared, files, run_name) ==
    {assign_fastqs(sorted, files, run_name) : sorted \in SortedOrders(declared)}

\* parse_samplesheet: the outcomes [status, samples] for a sheet's rows
SheetOutcomes(parsed, files, run_name) ==
    IF parsed.status # "ok" THEN {parsed}
    ELSE AssignOutcomes(parsed.samples, files, run_name)

parse_samplesheet(rows, files, run_name) ==
    SheetOutcomes(DataRows(rows, 1, <<>>, run_name), files, run_name)

\* a Run value
MakeRun(name, path, date, smpls) ==
    [name |-> name, path |-> path, date |-> date, samples |-> smpls]

\* the result of from_dir / from_zip: [status, run]
NoRun == MakeRun("", "", <<>>, <<>>)

BuiltRun(name, path, date, sheet) ==
    [status |-> sheet.status,
     run |-> IF sheet.status = "ok" THEN MakeRun(name, path, date, sheet.samples) ELSE NoRun]

\* a path without SampleSheet.csv gives a run without samples
RunOutcomes(p, run_name, date) ==
    IF p.sheet = None THEN {[status |-> "ok", run |-> MakeRun(run_name, p.name, date, <<>>)]}
    ELSE {BuiltRun(run_name, p.name, date, o) :
            o \in parse_samplesheet(Unwrap(p.sheet), p.fastqs, run_name)}

DatedOutcomes(p, run_name, run_date) ==
    IF run_date.status # "ok" THEN {[status |-> run_date.status, run |-> NoRun]}
    ELSE RunOutcomes(p, run_name, run_date.date)

from_dir(p) == DatedOutcomes(p, p.name, parse_date(p.name))

\* Path::file_stem: the name up to its last dot, if that is not the first character
RECURSIVE LastIndexFrom(_, _, _)
LastIndexFrom(s, c, i) ==
    IF i < 1 THEN 0
    ELSE IF CharAt(s, i) = c THEN i
    ELSE LastIndexFrom(s, c, i - 1)

StemUpTo(s, dot) == IF dot > 1 THEN SubSeq(s, 1, dot - 1) ELSE s

file_stem(s) == StemUpTo(s, LastIndexFrom(s, ".", Len(s)))

ZipOutcomes(p, run_name) == DatedOutcomes(p, run_name, parse_date(run_name))

\* ZipArchive::new(File::open(path)?)? comes first
from_zip(p) ==
    IF ~p.archive THEN {[status |-> "err", run |-> NoRun]}
    ELSE ZipOutcomes(p, file_stem(p.name))

\* name.split_inclusive("_"): the pieces end with their underscore, and there
\* is no empty last piece
RECURSIVE split_inclusive(_)
RECURSIVE SplitInclusiveAt(_, _)
split_inclusive(s) ==
    IF Len(s) = 0 THEN <<>> ELSE SplitInclusiveAt(s, FirstIndexFrom(s, "_", 1))

SplitInclusiveAt(s, k) ==
    IF k = 0 THEN <<s>>
    ELSE <<SubSeq(s, 1, k)>> \o split_inclusive(SubSeq(s, k + 1, Len(s)))

\* i32::MAX in decimal
I32MaxDigits == "2147483647"

\* the digits, without leading zeros, are a value within i32
FitsI32(canon) ==
    Len(canon) < Len(I32MaxDigits)
        \/ (Len(canon) = Len(I32MaxDigits) /\ DigitsLeq(canon, I32MaxDigits))

\* parts[0].parse::<i32>().unwrap_or(0) of a cell sheet's date token, as the
\* digits of the number; the tokens of the model are unsigned
CellsheetDate(token) ==
    IF Len(token) > 0 /\ AllDigits(token) /\ FitsI32(StripZeros(token))
    THEN StripZeros(token) ELSE "0"

\* numeric a >= b on digit strings without leading zeros
DigitsGeq(a, b) == Len(a) > Len(b) \/ (Len(a) = Len(b) /\ DigitsLeq(b, a))

\* the loop of find_cellsheet over the spikeINBC files in the order the walk
\* yields them: the index of the file kept, 0 for none
RECURSIVE LatestCellsheet(_, _, _, _)
RECURSIVE LatestDated(_, _, _, _, _)
LatestCellsheet(cands, k, latest, latest_date) ==
    IF k > Len(cands) THEN latest
    ELSE LatestDated(cands, k, latest, latest_date, Split(cands[k].name, "_"))

LatestDated(cands, k, latest, latest_date, parts) ==
    IF Len(parts) = 1 /\ latest_date = "0" THEN LatestCellsheet(cands, k + 1, k, latest_date)
    ELSE IF Len(parts) = 2 /\ DigitsGeq(CellsheetDate(parts[1]), latest_date)
         THEN LatestCellsheet(cands, k + 1, k, CellsheetDate(parts[1]))
    ELSE LatestCellsheet(cands, k + 1, latest, latest_date)

\* find_cellsheet: [status, sheet]; the slice [0..2] panics on a run name with
\* fewer than two pieces
PickedCellsheet(cands, k) ==
    [status |-> "ok", sheet |-> IF k = 0 THEN None ELSE Some(cands[k])]

find_cellsheet(run, cands) ==
    IF Len(split_inclusive(run.name)) < 2 THEN [status |-> "panic", sheet |-> None]
    ELSE PickedCellsheet(cands, LatestCellsheet(cands, 1, 0, "0"))

\* parts[1].parse::<f32>() times 153.846, rounded; the amounts of the model are
\* whole nanograms
CellsOf(ng) ==
    IF Len(ng) > 0 /\ Len(ng) <= 3 /\ AllDigits(ng)
    THEN Some((DigitsValue(ng) * 153846 + 500) \div 1000)
    ELSE None

\* the samples with the cell count of a line stored, if exactly one has the name
WithCells(smpls, line) ==
    IF Cardinality({i \in 1..Len(smpls) : smpls[i].s.name = line.sample_ID}) # 1 THEN smpls
    ELSE [i \in 1..Len(smpls) |->
            IF smpls[i].s.name = line.sample_ID
            THEN [smpls[i] EXCEPT !.s.cells = CellsOf(line.ng)]
            ELSE smpls[i]]

\* an empty line has the one part "": parts[1] is out of bounds if exactly one
\* sample has the empty name
EmptyLinePanics(smpls) == Cardinality({i \in 1..Len(smpls) : smpls[i].s.name = ""}) = 1

\* parse_cellsheet from line k on; a line is [cols, sample_ID, ng], cols = 0 for
\* an empty line: [status, samples]
RECURSIVE parse_cellsheet(_, _, _)
parse_cellsheet(smpls, lines, k) ==
    IF k > Len(lines) THEN [status |-> "ok", samples |-> smpls]
    ELSE IF lines[k].cols # 0 /\ lines[k].cols # 4 THEN [status |-> "err", samples |-> smpls]
    ELSE IF lines[k].cols = 0
         THEN (IF EmptyLinePanics(smpls) THEN [status |-> "panic", samples |-> smpls]
               ELSE parse_cellsheet(smpls, lines, k + 1))
    ELSE IF lines[k].sample_ID = "sample_ID" THEN parse_cellsheet(smpls, lines, k + 1)
    ELSE parse_cellsheet(WithCells(smpls, lines[k]), lines, k + 1)

\* an Err of parse_cellsheet is only logged; the counts stored before it stay
WithCellsheet(run, parsed) ==
    [status |-> IF parsed.status = "panic" THEN "panic" ELSE "ok",
     run |-> [run EXCEPT !.samples = parsed.samples]]

\* the closure of from_path on a run that was built
Enriched(run, found) ==
    IF found.status = "panic" THEN [status |-> "panic", run |-> run]
    ELSE IF found.sheet = None THEN [status |-> "ok", run |-> run]
    ELSE WithCellsheet(run, parse_cellsheet(run.samples, Unwrap(found.sheet).lines, 1))

Enrich(built, cands) ==
    IF built.status # "ok" THEN built
    ELSE Enriched(built.run, find_cellsheet(built.run, cands))

\* Run::from_path: the outcomes for a depth-3 entry
from_path(p) ==
    {Enrich(built, p.cellsheets) : built \in (IF p.is_dir THEN from_dir(p) ELSE from_zip(p))}

(***************************************************************************)
(* The store and the update command (src/src/main.rs update,               *)
(* src/vquery/src/vaultdb.rs flush and update)                             *)
(***************************************************************************)
Range(q) == {q[k] : k \in 1..Len(q)}

\* to_schema_run: the run row (the four text columns of the sheet header are
\* left out)
RunRow(r) == [name |-> r.name, date |-> r.date, path |-> r.path]

\* the sample rows of a run, ids from id on; every sample gets the run's name
SampleRows(r, id) ==
    {[id |-> id + k - 1, s |-> [r.samples[k].s EXCEPT !.run = r.name]] : k \in 1..Len(r.samples)}

FastqRows_shifted(r, id) ==
    UNION {{[sample_id |-> id + k, filename |-> f] : f \in Range(r.samples[k].files)} :
            k \in 1..Len(r.samples)}
FastqRows(r, id) ==
    UNION {{[sample_id |-> id + k - 1, filename |-> f] : f \in Range(r.samples[k].files)} :
            k \in 1..Len(r.samples)}

\* the primary keys: run (name), fastq (sample_id, filename)
RunKeyTaken(d, r) == \E row \in d.run : row.name = r.name

FastqKeyTwice(r) ==
    \E k \in 1..Len(r.samples) :
        Cardinality(Range(r.samples[k].files)) < Len(r.samples[k].files)

InsertRun(d, r, id) ==
    [run |-> d.run \union {RunRow(r)},
     sample |-> d.sample \union SampleRows(r, id),
     fastq |-> d.fastq \union FastqRows(r, id)]

\* the transaction of vaultdb::update over the runs from k on: the rows and the
\* id sequence after it, [status, db, next_id]; an insert that fails panics
\* through expect()
RECURSIVE InsertRuns(_, _, _, _)
InsertRuns(runs, k, d, id) ==
    IF k > Len(runs) THEN [status |-> "ok", db |-> d, next_id |-> id]
    ELSE IF RunKeyTaken(d, runs[k]) THEN [status |-> "panic", db |-> d, next_id |-> id]
    ELSE IF FastqKeyTwice(runs[k])
         THEN [status |-> "panic", db |-> d, next_id |-> id + Len(runs[k].samples)]
    ELSE InsertRuns(runs, k + 1, InsertRun(d, runs[k], id), id + Len(runs[k].samples))

\* filter_map(.. .ok()): the runs that were built, in the order of the paths
BuiltRuns_reversed(built) ==
    LET oks == SelectSeq(built, LAMBDA b : b.status = "ok")
    IN  [k \in 1..Len(oks) |-> oks[Len(oks) + 1 - k].run]
BuiltRuns(built) ==
    LET oks == SelectSeq(built, LAMBDA b : b.status = "ok")
    IN  [k \in 1..Len(oks) |-> oks[k].run]

Pending == [status |-> "pending", run |-> NoRun]

(***************************************************************************)
(* Specification of the update command: a tree of depth-3 entries, edited  *)
(* between commands, and update commands run one after the other.          *)
(***************************************************************************)
MaxPaths == 2
MaxUpdates == 2

SheetRow(cols, name, project, lims) ==
    [cols |-> cols, name |-> name, project |-> project, lims |-> lims]

CellLine(cols, sample_ID, ng) == [cols |-> cols, sample_ID |-> sample_ID, ng |-> ng]

Entry(name, is_dir, archive, sheet, files, cellsheets) ==
    [name |-> name, is_dir |-> is_dir, archive |-> archive, sheet |-> sheet,
     fastqs |-> files, cellsheets |-> cellsheets]

RowsA == <<SheetRow(10, "Sample_ID", "Sample_Project", "Description"), SheetRow(10, "A", "", "7")>>
RowsAB == <<SheetRow(6, "AB", "data_p", "")>>
RowsBad == <<SheetRow(10, "A", "", "7"), SheetRow(8, "B", "", "")>>

CellsheetA ==
    [name |-> "20210806_spikeINBC.csv",
     lines |-> <<CellLine(4, "sample_ID", "ng"), CellLine(4, "A", "2")>>]

\* the entries a tree is made of: a run directory, an archive of the same run
\* with other content, a second run with a cell sheet, and entries no run can
\* be built of
PathUniverse ==
    { Entry("210802_M1_0001", TRUE, FALSE, Some(RowsA), <<"x/A_S2_R.fastq.gz">>, <<>>),
      Entry("210802_M1_0001.zip", FALSE, TRUE, Some(RowsAB),
            <<"x/AB_S1_R.fastq.gz", "x/22-00456.fastq.gz">>, <<>>),
      Entry("210806_M1_0005", TRUE, FALSE, Some(RowsA), <<"x/A_S2_R.fastq.gz">>,
            <<CellsheetA>>),
      Entry("211301_M1_0002", TRUE, FALSE, Some(RowsA), <<>>, <<>>),
      Entry("210803", TRUE, FALSE, None, <<>>, <<>>),
      Entry("210805_M1_0004", TRUE, FALSE, Some(RowsBad), <<>>, <<>>),
      Entry("notes.txt", FALSE, FALSE, None, <<>>, <<>>) }

Trees == {t \in SUBSET PathUniverse : Cardinality(t) <= MaxPaths}

\* the orders in which the walk may find the entries of t
WalkOrders(t) ==
    {q \in [1..Cardinality(t) -> t] : \A a, b \in 1..Cardinality(t) : q[a] = q[b] => a = b}

StoreInit ==
    /\ tree \in Trees
    /\ db = EmptyStore
    /\ next_id = 1
    /\ store0 = EmptyStore
    /\ u_count = 0
    /\ u_pc = "idle"
    /\ u_paths = <<>>
    /\ u_built = <<>>
    /\ AssignIdle
    /\ MatchIdle
    /\ QueryIdle
    /\ ExportIdle
    /\ ExtractIdle
    /\ WalkIdle
    /\ RunIdle
    /\ DateIdle
    /\ DnaIdle
    /\ ChannelIdle
    /\ CellsheetIdle

CommandEnded == u_pc \in {"idle", "done", "build_panic", "insert_panic"}

\* the file tree changes between two commands: an entry appears or goes
EditTree ==
    /\ CommandEnded
    /\ u_count < MaxUpdates
    /\ \E p \in PathUniverse :
          /\ tree' = IF p \in tree THEN tree \ {p} ELSE tree \union {p}
          /\ tree' \in Trees
    /\ UNCHANGED <<db, next_id, store0, u_count, u_pc, u_paths, u_built>>
    /\ UNCHANGED notStore

\* the rows left by the transaction of vaultdb::flush
FlushedStore == EmptyStore

\* the update command up to the call of vaultdb::update: src/src/main.rs always
\* flushes first, vquery/src/main.rs only with --force; flush commits its own
\* transaction
StartUpdate ==
    /\ CommandEnded
    /\ u_count < MaxUpdates
    /\ store0' = db
    /\ \E force \in BOOLEAN : db' = IF force THEN FlushedStore ELSE db
    /\ u_count' = u_count + 1
    /\ u_pc' = "walk"
    /\ u_paths' = <<>>
    /\ u_built' = <<>>
    /\ UNCHANGED <<tree, next_id>>
    /\ UNCHANGED notStore

\* vaultdb::update, the walk: the depth-3 entries in the order WalkDir yields them
Discover ==
    /\ u_pc = "walk"
    /\ \E order \in WalkOrders(tree) :
          /\ u_paths' = order
          /\ u_built' = [k \in 1..Len(order) |-> Pending]
    /\ u_pc' = "build"
    /\ UNCHANGED <<tree, db, next_id, store0, u_count>>
    /\ UNCHANGED notStore

\* par_extend keeps the order of the paths: the result of the worker of path i
\* is item i of the collected results, whenever the worker finishes
Collected(built, i, o) == [built EXCEPT ![i] = o]

\* a worker finished path i with outcome o; a panic of the worker is raised
\* again by par_extend and ends the command
WorkerReturns(i, o) ==
    IF o.status = "panic"
    THEN u_pc' = "build_panic" /\ UNCHANGED u_built
    ELSE u_built' = Collected(u_built, i, o) /\ UNCHANGED u_pc

\* vaultdb::update, one rayon worker: Run::from_path(path).ok()
BuildRun ==
    /\ u_pc = "build"
    /\ \E i \in 1..Len(u_paths) :
          /\ u_built[i].status = "pending"
          /\ \E o \in from_path(u_paths[i]) : WorkerReturns(i, o)
    /\ UNCHANGED <<tree, db, next_id, store0, u_count, u_paths>>
    /\ UNCHANGED notStore

\* par_extend returns when every worker has returned its result
AllCollected_any(built) == TRUE
AllCollected(built) == \A i \in 1..Len(built) : built[i].status # "pending"

\* the transaction committed with r.db, or rolled back by the panic of expect();
\* the id sequence is not rolled back
CommitReturns(r) ==
    /\ next_id' = r.next_id
    /\ db' = IF r.status = "ok" THEN r.db ELSE db
    /\ u_pc' = IF r.status = "ok" THEN "done" ELSE "insert_panic"

\* vaultdb::update, the transaction over the collected runs
Commit ==
    /\ u_pc = "build"
    /\ AllCollected(u_built)
    /\ CommitReturns(InsertRuns(BuiltRuns(u_built), 1, db, next_id))
    /\ UNCHANGED <<tree, store0, u_count, u_paths, u_built>>
    /\ UNCHANGED notStore

StoreNext == EditTree \/ StartUpdate \/ Discover \/ BuildRun \/ Commit

SpecStore == StoreInit /\ [][StoreNext]_vars

\* the entries of the tree every build of which gives a run
Builds(p) == \A o \in from_path(p) : o.status = "ok"

RunCommitted(p) == \E row \in db.run : row.path = p.name

\* C2: if an insert fails while the update command commits its batch, the
\* command ends with an error and the run, sample and fastq rows of the store
\* are exactly those present before the command started.
C2_FailedInsertKeepsStore ==
    u_pc = "insert_panic" => db = store0

FilesOfRow(d, row) == {f.filename : f \in {x \in d.fastq : x.sample_id = row.id}}

\* no two runs of the batch have the same name
DistinctRunNames(runs) ==
    \A a, b \in 1..Len(runs) : runs[a].name = runs[b].name => a = b

\* C3: when a second or later update command has ended, over a tree in which
\* every run name occurs once, the store holds exactly one run row for every
\* run N the command built and exactly the sample and fastq rows of this
\* ingestion of N; no sample or fastq row of the earlier ingestion remains.
C3_SecondIngestionReplaces ==
    (/\ u_pc \in {"done", "insert_panic"}
     /\ u_count >= 2
     /\ DistinctRunNames(BuiltRuns(u_built))) =>
        \A r \in Range(BuiltRuns(u_built)) :
            /\ Cardinality({row \in db.run : row.name = r.name}) = 1
            /\ Cardinality({row \in db.sample : row.s.run = r.name}) = Len(r.samples)
            /\ \A row \in db.sample : row.s.run = r.name => row \notin store0.sample
            /\ \A k \in 1..Len(r.samples) :
                  \E row \in db.sample :
                      /\ row.s = [r.samples[k].s EXCEPT !.run = r.name]
                      /\ FilesOfRow(db, row) = Range(r.samples[k].files)

\* C4: if building the Run of one path fails, that path alone is left out of
\* the batch: when the command has ended without a failed insert, every path
\* of the tree that builds is committed.
C4_FailedPathAloneExcluded ==
    u_pc \in {"done", "build_panic"} => \A p \in tree : Builds(p) => RunCommitted(p)

(***************************************************************************)
(* Reconciliation: match_samples (src/vquery/src/vaultdb.rs) with          *)
(* is_dna_nr and normalize_dna_nr of src/vquery/src/sample.rs, and         *)
(* SampleSheet::from_xlsx (src/src/samplesheet.rs)                         *)
(***************************************************************************)
\* a sample row as match_samples loads it
StoredSample(id, run, name, dna_nr, lims_id, primer_set) ==
    [id |-> id, run |-> run, name |-> name, dna_nr |-> dna_nr, project |-> "",
     lims_id |-> lims_id, primer_set |-> primer_set, cells |-> None]

\* sample.rs is_dna_nr: the cheap check XX-XXXXX, with or without "D-"
DnaShape(actual) == Len(actual) = 8 /\ CharAt(actual, 3) = "-"

is_dna_nr(dna_nr) ==
    IF Len(dna_nr) < 8 THEN FALSE
    ELSE DnaShape(IF StartsWith(dna_nr, "D-") THEN SubSeq(dna_nr, 3, Len(dna_nr)) ELSE dna_nr)

\* sample.rs normalize_dna_nr: [status, value]; the input is returned as it is
\* unless it has two parts, and unwrap() panics on a part that is no u32
SampleFormatDnaNr(year, number) ==
    IF year = None \/ number = None THEN [status |-> "panic", value |-> ""]
    ELSE [status |-> "ok",
          value |-> FormatPadded(Unwrap(year), 2) \o "-" \o FormatPadded(Unwrap(number), 5)]

SampleNormalizeParts(dnanr, parts) ==
    IF Len(parts) # 2 THEN [status |-> "ok", value |-> dnanr]
    ELSE SampleFormatDnaNr(ParseU32(parts[1]), ParseU32(parts[2]))

SampleNormalizeStripped(dnanr) == SampleNormalizeParts(dnanr, Split(dnanr, "-"))

sample_normalize_dna_nr(dnanr) ==
    SampleNormalizeStripped(IF StartsWith(dnanr, "D-") THEN SubSeq(dnanr, 3, Len(dnanr)) ELSE dnanr)

\* the results of match_samples: [status, outcome, samples]
MatchNone == [status |-> "ok", outcome |-> "None", samples |-> <<>>]
MatchErr == [status |-> "err", outcome |-> "", samples |-> <<>>]
MatchPanic == [status |-> "panic", outcome |-> "", samples |-> <<>>]

\* filter by LIMS ID
LimsFilter(c, lims_id) ==
    IF IsSome(lims_id) THEN SelectSeq(c, LAMBDA s : s.lims_id = lims_id) ELSE c

\* filter by DNA nr: [status, pool]; the closure normalizes the given number
\* for every candidate
DnaEquals(c, norm) ==
    IF norm.status = "panic" THEN [status |-> "panic", pool |-> c]
    ELSE [status |-> "ok", pool |-> SelectSeq(c, LAMBDA s : s.dna_nr = norm.value)]

DnaFilter(c, dna_nr) ==
    IF IsSome(dna_nr) /\ is_dna_nr(Unwrap(dna_nr))
    THEN DnaEquals(c, sample_normalize_dna_nr(Unwrap(dna_nr)))
    ELSE [status |-> "ok", pool |-> c]

\* filter by primer set: the stored one is contained in the given one
PrimerFilter(c, primer_set) ==
    IF IsSome(primer_set)
    THEN SelectSeq(c, LAMBDA s : IsSome(s.primer_set)
                                 /\ Contains(Unwrap(primer_set), Unwrap(s.primer_set)))
    ELSE c

\* filter by name: either one contains the other
NamePasses_oneway(s, name) == Contains(s.name, name)
NamePasses(s, name) == Contains(s.name, name) \/ Contains(name, s.name)

NameFilter(c, name) ==
    IF IsSome(name) THEN SelectSeq(c, LAMBDA s : NamePasses(s, Unwrap(name))) ELSE c

\* match candidates.len()
MatchStatus(c) ==
    IF Len(c) = 0 THEN MatchNone
    ELSE [status |-> "ok", outcome |-> IF Len(c) = 1 THEN "One" ELSE "Multiple", samples |-> c]

MatchFromPrimer(c, name) ==
    IF c = <<>> THEN MatchNone ELSE MatchStatus(NameFilter(c, name))

MatchFromDna(r, primer_set, name) ==
    IF r.status = "panic" THEN MatchPanic
    ELSE IF r.pool = <<>> THEN MatchNone
    ELSE MatchFromPrimer(PrimerFilter(r.pool, primer_set), name)

\* what match_samples returns when the LIMS filter leaves nothing
AfterLimsEmpty_none == MatchNone
AfterLimsEmpty == MatchErr

MatchFromLims(c, dna_nr, primer_set, name) ==
    IF c = <<>> THEN AfterLimsEmpty
    ELSE MatchFromDna(DnaFilter(c, dna_nr), primer_set, name)

MatchFromRun(c, lims_id, dna_nr, primer_set, name) ==
    IF c = <<>> THEN MatchNone
    ELSE MatchFromLims(LimsFilter(c, lims_id), dna_nr, primer_set, name)

\* match_samples over the sample table `store`, on the arguments a = [lims_id,
\* dna_nr, primer_set, name, run]
match_samples(store, a) ==
    MatchFromRun(SelectSeq(store, LAMBDA s : s.run = a.run),
                 a.lims_id, a.dna_nr, a.primer_set, a.name)

\* str::parse::<i64>: an optional sign, then digits, the value within i64; the
\* number as decimal digits, with "-" in front of a negative one
I64Magnitude(canon, limit) ==
    IF Len(canon) < Len(limit) \/ (Len(canon) = Len(limit) /\ DigitsLeq(canon, limit))
    THEN Some(canon) ELSE None

I64Digits(body, limit) ==
    IF Len(body) > 0 /\ AllDigits(body) THEN I64Magnitude(StripZeros(body), limit) ELSE None

Negated(m) == IF m = None \/ m = Some("0") THEN m ELSE Some("-" \o Unwrap(m))

\* the magnitude of i64::MIN
I64MinDigits == "9223372036854775808"

ParseI64(s) ==
    IF StartsWith(s, "-") THEN Negated(I64Digits(Tail(s), I64MinDigits))
    ELSE I64Digits(IF StartsWith(s, "+") THEN Tail(s) ELSE s, I64MaxDigits)

\* header_row.iter().position(|c| *c == col): the first column with the name, 0 for none
RECURSIVE Position(_, _, _)
Position(header, col, k) ==
    IF k > Len(header) THEN 0
    ELSE IF header[k] = col THEN k
    ELSE Position(header, col, k + 1)

\* col.map(|col| row[col].to_string())
CellOf(row, col) == IF col = 0 THEN None ELSE Some(row[col])

\* the LIMS ID cell parsed, None if it is no i64 or there is no such column
LimsCell(cell) == IF cell = None THEN None ELSE ParseI64(Unwrap(cell))

\* the arguments from_xlsx passes to match_samples for a row
MatchArgs(header, row) ==
    [run |-> row[Position(header, "run", 1)],
     name |-> CellOf(row, Position(header, "Sample", 1)),
     primer_set |-> CellOf(row, Position(header, "primer set", 1)),
     lims_id |-> LimsCell(CellOf(row, Position(header, "LIMS ID", 1))),
     dna_nr |-> CellOf(row, Position(header, "DNA nr", 1))]

\* the last column with the header name h
RECURSIVE LastPosition(_, _, _)
LastPosition(header, h, k) ==
    IF k < 1 THEN 0
    ELSE IF header[k] = h THEN k
    ELSE LastPosition(header, h, k - 1)

\* header_row.zip(row).collect::<HashMap>(): a later column replaces an earlier
\* one of the same name
ExtraCols(header, row) ==
    [h \in Range(header) |-> row[LastPosition(header, h, Len(header))]]

\* sample.into() with the extra columns of the row
SheetEntry(sample, header, row) == [model |-> sample, extra_cols |-> ExtraCols(header, row)]

(***************************************************************************)
(* Specification of the re-import: a sample table and a spreadsheet, read  *)
(* row by row by from_xlsx.                                                *)
(***************************************************************************)
MaxRows == 2

\* the sample table: any of these rows, in the order of their ids
SampleUniverse ==
    { StoredSample(1, "R1", "21-123_FR1", "21-00123", Some("7"), Some("FR1")),
      StoredSample(2, "R1", "21-123_FR2", "21-00123", Some("7"), Some("FR2")),
      StoredSample(3, "R1", "A", "", None, None),
      StoredSample(4, "R2", "A", "", Some("8"), Some("")) }

ById(S) ==
    LET ids == {s.id : s \in S}
        nth(k) == CHOOSE s \in S : Cardinality({i \in ids : i < s.id}) = k - 1
    IN  [k \in 1..Cardinality(S) |-> nth(k)]

Stores == {ById(S) : S \in SUBSET SampleUniverse}

HeaderFull == <<"run", "Sample", "primer set", "LIMS ID", "DNA nr">>
HeaderTwice == <<"run", "Sample", "Sample">>
HeaderNoRun == <<"Sample", "DNA nr">>
HeaderRunOnly == <<"run">>

Headers == {HeaderFull, HeaderTwice, HeaderNoRun, HeaderRunOnly}

\* the data rows a spreadsheet with the given header is made of
RowUniverse(header) ==
    IF header = HeaderFull THEN
        { <<"R1", "21-123_FR1_rep", "IGH-FR1", "7", "D-21-00123">>,
          <<"R1", "21-123", "FR1_FR2", "7", "nope">>,
          <<"R1", "21-123", "", "7", "21-00123">>,
          <<"R1", "A", "FR1", "999", "ab-cdefg">>,
          <<"R1", "A", "FR1", "", "ab-cdefg">>,
          <<"R1", "21-123_FR1", "FR1", "7", "22-00456">>,
          <<"R1", "zzz", "FR1", "7", "21-00123">>,
          <<"R2", "A", "x", "8", "">> }
    ELSE IF header = HeaderTwice THEN
        { <<"R1", "A", "B">>, <<"R2", "A", "A">>, <<"R1", "21-123", "x">> }
    ELSE IF header = HeaderNoRun THEN
        { <<"A", "21-00123">> }
    ELSE { <<"R1">>, <<"R2">>, <<"R9">> }

Sheets ==
    UNION {{[header |-> h, rows |-> r] : r \in SeqsUpTo(RowUniverse(h), MaxRows)} : h \in Headers}

MatchInit ==
    /\ m_store \in Stores
    /\ \E sheet \in Sheets : m_header = sheet.header /\ m_rows = sheet.rows
    /\ m_pc = "open"
    /\ m_k = 0
    /\ m_entries = <<>>
    /\ m_calls = <<>>
    /\ AssignIdle
    /\ StoreIdle
    /\ QueryIdle
    /\ ExportIdle
    /\ ExtractIdle
    /\ WalkIdle
    /\ RunIdle
    /\ DateIdle
    /\ DnaIdle
    /\ ChannelIdle
    /\ CellsheetIdle

\* from_xlsx up to the loop: the column `run` is required
OpenWorkbook ==
    /\ m_pc = "open"
    /\ m_pc' = IF Position(m_header, "run", 1) = 0 THEN "err"
               ELSE IF Len(m_rows) = 0 THEN "done" ELSE "rows"
    /\ m_k' = 1
    /\ UNCHANGED <<m_store, m_header, m_rows, m_entries, m_calls>>
    /\ UNCHANGED notMatch

\* the rows that make an entry
Imported_any(res) == res.outcome \in {"One", "Multiple"}
Imported(res) == res.outcome = "One"

\* the body of the loop once match_samples returned res for row m_k: `?` and a
\* panic end from_xlsx without a sheet, None and Multiple go on with the next row
RowReturns(a, res) ==
    /\ m_calls' = Append(m_calls, [args |-> a, res |-> res])
    /\ m_entries' = IF res.status # "ok" THEN <<>>
                    ELSE IF Imported(res)
                         THEN Append(m_entries, SheetEntry(res.samples[1], m_header, m_rows[m_k]))
                    ELSE m_entries
    /\ m_pc' = IF res.status # "ok" THEN res.status
               ELSE IF m_k = Len(m_rows) THEN "done" ELSE "rows"

RowMatched(a) == RowReturns(a, match_samples(m_store, a))

\* from_xlsx, one iteration of the loop over the rows
ImportRow ==
    /\ m_pc = "rows"
    /\ RowMatched(MatchArgs(m_header, m_rows[m_k]))
    /\ m_k' = m_k + 1
    /\ UNCHANGED <<m_store, m_header, m_rows>>
    /\ UNCHANGED notMatch

MatchNext == OpenWorkbook \/ ImportRow

SpecMatch == MatchInit /\ [][MatchNext]_vars

\* the samples of the table that pass every given filter of the arguments a
Passing(a) ==
    {s \in Range(m_store) :
        /\ s.run = a.run
        /\ IsSome(a.lims_id) => s.lims_id = a.lims_id
        /\ (IsSome(a.dna_nr) /\ is_dna_nr(Unwrap(a.dna_nr))) =>
              s.dna_nr = sample_normalize_dna_nr(Unwrap(a.dna_nr)).value
        /\ IsSome(a.primer_set) =>
              (IsSome(s.primer_set) /\ Contains(Unwrap(a.primer_set), Unwrap(s.primer_set)))
        /\ IsSome(a.name) =>
              (Contains(s.name, Unwrap(a.name)) \/ Contains(Unwrap(a.name), s.name))}

\* the run has samples and none of them carries the given LIMS id
LimsMiss(a) ==
    /\ IsSome(a.lims_id)
    /\ \E s \in Range(m_store) : s.run = a.run
    /\ \A s \in Range(m_store) : s.run = a.run => s.lims_id # a.lims_id

\* C5: a call of match_samples with a LIMS id that no sample of a non-empty run
\* carries returns an error whatever the other identifiers are; no other call
\* returns an error, and a call that returns with no sample left returns None.
C5_LimsMissIsError ==
    \A i \in 1..Len(m_calls) :
        /\ LimsMiss(m_calls[i].args) <=> m_calls[i].res.status = "err"
        /\ (m_calls[i].res.status = "ok" /\ Passing(m_calls[i].args) = {}) =>
              m_calls[i].res.outcome = "None"

\* an import in which one call gave None at the DNA stage and a later call
\* with an unmatched LIMS id and a DNA number that cannot be normalized gave the error
C5_Witness ==
    /\ Len(m_calls) = 2
    /\ m_calls[1].res.outcome = "None"
    /\ m_calls[1].args.dna_nr = Some("22-00456")
    /\ \E s \in Range(m_store) : s.run = "R1" /\ s.lims_id = Some("7") /\ s.primer_set = Some("FR1")
    /\ m_calls[2].res.status = "err"
    /\ m_calls[2].args.lims_id = Some("999")
    /\ m_calls[2].args.dna_nr = Some("ab-cdefg")

\* C6: whenever match_samples returns One or Multiple, the returned samples are
\* exactly the samples of the run that pass every given filter; of the outcomes
\* it returns, One is returned iff exactly one sample passes, Multiple iff more
\* than one, None iff none.
C6_OutcomeCountsPassing ==
    \A i \in 1..Len(m_calls) :
        m_calls[i].res.status = "ok" =>
            /\ m_calls[i].res.outcome \in {"One", "Multiple"} =>
                  /\ Range(m_calls[i].res.samples) = Passing(m_calls[i].args)
                  /\ Len(m_calls[i].res.samples) = Cardinality(Passing(m_calls[i].args))
            /\ m_calls[i].res.outcome = "One" <=> Cardinality(Passing(m_calls[i].args)) = 1
            /\ m_calls[i].res.outcome = "Multiple" <=> Cardinality(Passing(m_calls[i].args)) > 1
            /\ m_calls[i].res.outcome = "None" <=> Passing(m_calls[i].args) = {}

\* an import with a Multiple and then a One; the One passed all four filters,
\* the name filter because the given name contains the stored one
C6_Witness ==
    /\ Len(m_calls) = 2
    /\ m_calls[1].res.outcome = "Multiple"
    /\ Len(m_calls[1].res.samples) = 2
    /\ m_calls[2].res.outcome = "One"
    /\ m_calls[2].args.name = Some("21-123_FR1_rep")
    /\ m_calls[2].args.dna_nr = Some("D-21-00123")
    /\ m_calls[2].res.samples[1].name = "21-123_FR1"
    /\ Cardinality({s \in Range(m_store) : s.run = "R1"}) = 3

\* the outcome of match_samples for row k of the spreadsheet
RowOutcome(k) == match_samples(m_store, MatchArgs(m_header, m_rows[k]))

\* the rows with outcome One, in row order
OneRows ==
    SelectSeq([k \in 1..Len(m_rows) |-> k], LAMBDA k : RowOutcome(k).outcome = "One")

\* C7 as stated: the entries of the sheet from_xlsx returns are exactly the rows
\* with outcome One, in row order, each carrying every spreadsheet column as an
\* extra column.
C7_EveryColumnCarried ==
    m_pc = "done" =>
        /\ Len(m_entries) = Len(OneRows)
        /\ \A j \in 1..Len(m_entries) :
              /\ m_entries[j].model = RowOutcome(OneRows[j]).samples[1]
              /\ \A c \in 1..Len(m_header) :
                    m_entries[j].extra_cols[m_header[c]] = m_rows[OneRows[j]][c]

\* C7, the part that holds: the entries are exactly the rows with outcome One, in row
\* order; each carries one extra column per header name, holding the row's
\* value in the last column of that name.  Rows with outcome None or Multiple
\* are skipped.
C7_OneRowsImported ==
    m_pc = "done" =>
        /\ Len(m_entries) = Len(OneRows)
        /\ \A j \in 1..Len(m_entries) :
              /\ m_entries[j].model = RowOutcome(OneRows[j]).samples[1]
              /\ DOMAIN m_entries[j].extra_cols = Range(m_header)
              /\ \A c \in 1..Len(m_header) :
                    (\A d \in (c + 1)..Len(m_header) : m_header[d] # m_header[c]) =>
                        m_entries[j].extra_cols[m_header[c]] = m_rows[OneRows[j]][c]

\* a sheet whose first row is skipped as Multiple and whose second row is imported
C7_Witness ==
    /\ m_pc = "done"
    /\ Len(m_rows) = 2
    /\ RowOutcome(1).outcome = "Multiple"
    /\ Len(m_entries) = 1
    /\ m_entries[1].model.name = "21-123_FR1"
    /\ m_entries[1].extra_cols["primer set"] = "IGH-FR1"

(***************************************************************************)
(* Query: vaultdb::query (src/vquery/src/vaultdb.rs) and the query command *)
(* (src/src/main.rs query)                                                 *)
(***************************************************************************)
\* text ILIKE pattern: case-insensitive, % is any sequence, _ is any one character
RECURSIVE LikeFrom(_, _)
LikeFrom(p, t) ==
    IF Len(p) = 0 THEN Len(t) = 0
    ELSE IF Head(p) = "%" THEN LikeFrom(Tail(p), t) \/ (Len(t) > 0 /\ LikeFrom(p, Tail(t)))
    ELSE /\ Len(t) > 0
         /\ Head(p) = "_" \/ Head(p) = Head(t)
         /\ LikeFrom(Tail(p), Tail(t))

ILike(text, pattern) == LikeFrom(ToLower(pattern), ToLower(text))

\* a sample row with the filenames of its fastq rows
QuerySample(id, name, cells, lims_id, files) ==
    [id |-> id, run |-> "R1", name |-> name, dna_nr |-> None, project |-> None,
     primer_set |-> None, lims_id |-> lims_id, cells |-> cells, files |-> files]

NumericKeys == {"cells<", "cells>", "cells", "lims_id<", "lims_id>", "lims_id"}
LikeKeys == {"run", "name", "dna_nr", "project", "primer_set", "filename"}

\* the column a filter key names, NULL as None
NumericColumn(s, key) == IF StartsWith(key, "cells") THEN s.cells ELSE s.lims_id

LikeColumn(s, f, key) ==
    IF key = "run" THEN Some(s.run)
    ELSE IF key = "name" THEN Some(s.name)
    ELSE IF key = "dna_nr" THEN s.dna_nr
    ELSE IF key = "project" THEN s.project
    ELSE IF key = "primer_set" THEN s.primer_set
    ELSE Some(f)

\* " AND {}={}" with the key and the value: cells>=v, cells<=v, cells=v; a
\* comparison with NULL does not hold
NumericHolds_strict(col, key, v) ==
    /\ IsSome(col)
    /\ IF EndsWith(key, ">") THEN Unwrap(col) > v
       ELSE IF EndsWith(key, "<") THEN Unwrap(col) < v
       ELSE Unwrap(col) = v
NumericHolds(col, key, v) ==
    /\ IsSome(col)
    /\ IF EndsWith(key, ">") THEN Unwrap(col) >= v
       ELSE IF EndsWith(key, "<") THEN Unwrap(col) <= v
       ELSE Unwrap(col) = v

\* the values of the model are unsigned whole numbers or no SQL expression
IsNumber(value) == Len(value) > 0 /\ Len(value) <= 6 /\ AllDigits(value)

\* " AND {} ILIKE '{}'"
LikeHolds(col, value) == IsSome(col) /\ ILike(Unwrap(col), value)

\* one filter on a row of sample joined with fastq; other keys are ignored
FilterHolds(s, f, key, value) ==
    IF key \in NumericKeys THEN NumericHolds(NumericColumn(s, key), key, DigitsValue(value))
    ELSE IF key \in LikeKeys THEN LikeHolds(LikeColumn(s, f, key), value)
    ELSE TRUE

\* the rows of the inner select: filename ILIKE $1 and every filter
RowSelected(s, f, needle, filters) ==
    /\ ILike(f, needle)
    /\ \A key \in DOMAIN filters : FilterHolds(s, f, key, filters[key])

\* SELECT DISTINCT sample.id .. WHERE ..
SelectedSamples(store, needle, filters) ==
    {s \in store : \E f \in s.files : RowSelected(s, f, needle, filters)}

\* .. LIMIT count: any count of the distinct ids
Limited(S, limit) ==
    IF limit = None \/ Unwrap(limit) >= Cardinality(S) THEN {S}
    ELSE {T \in SUBSET S : Cardinality(T) = Unwrap(limit)}

\* the statement fails on a numeric filter whose value is no number, and
\* expect("Couldn't retrieve results") panics
StatementFails(filters) ==
    \E key \in DOMAIN filters : key \in NumericKeys /\ ~IsNumber(filters[key])

\* vaultdb::query: the results it may return, [status, samples]; the outer join
\* gives every sample of the inner select with all its filenames
query(store, needle, filters, limit) ==
    IF StatementFails(filters) THEN {[status |-> "panic", samples |-> {}]}
    ELSE {[status |-> "ok", samples |-> S] :
            S \in Limited(SelectedSamples(store, needle, filters), limit)}

\* main.rs query: a line without % is wrapped in %
Wrapped(line) == IF Contains(line, "%") THEN line ELSE "%" \o line \o "%"

\* main.rs query: the filters key=value collected into a map, a later one of
\* the same key replacing an earlier one; others are ignored as malformed
RECURSIVE CollectFilters(_, _, _)
RECURSIVE InsertFilter(_, _, _, _)
CollectFilters(filter, k, acc) ==
    IF k > Len(filter) THEN acc
    ELSE InsertFilter(filter, k, acc, Split(filter[k], "="))

InsertFilter(filter, k, acc, parts) ==
    IF Len(parts) # 2 THEN CollectFilters(filter, k + 1, acc)
    ELSE CollectFilters(filter, k + 1,
            [key \in DOMAIN acc \union {parts[1]} |->
                IF key = parts[1] THEN parts[2] ELSE acc[key]])

NoFilters == [key \in {} |-> ""]

(***************************************************************************)
(* Specification of the query command: a store, the lines of free text,    *)
(* the filter arguments and the limit.                                     *)
(***************************************************************************)
MaxQueries == 2
MaxFilters == 1
MaxLimit == 1

QueryUniverse ==
    { QuerySample(1, "AB", Some(1000), Some(7), {"AB_S1_R1.fastq.gz", "AB_S1_R2.fastq.gz"}),
      QuerySample(2, "AC", Some(1001), Some(8), {"AC_S2_R1.fastq.gz"}),
      QuerySample(3, "ab", None, None, {"ab_S3_R1.fastq.gz"}),
      QuerySample(4, "zz", Some(999), Some(6), {"zz.fastq.gz"}) }

Fragments == {"a", "AB_S", "zz%"}

FilterArgs ==
    { "cells>=1000", "cells<=1000", "cells=1000", "lims_id>=7", "lims_id<=7", "lims_id=7",
      "cells>1000", "cells>=x", "colour=red", "name=a%" }

QueryInit ==
    /\ q_store \in SUBSET QueryUniverse
    /\ \E lines \in DistinctSeqsUpTo(Fragments, MaxQueries), filter \in SeqsUpTo(FilterArgs, MaxFilters),
          limit \in {None} \union {Some(n) : n \in 1..MaxLimit} :
          q_args = [lines |-> lines, filter |-> filter, limit |-> limit]
    /\ q_queries = <<>>
    /\ q_filters = NoFilters
    /\ q_pc = "args"
    /\ q_k = 0
    /\ q_candidates = {}
    /\ q_calls = <<>>
    /\ AssignIdle
    /\ StoreIdle
    /\ MatchIdle
    /\ ExportIdle
    /\ ExtractIdle
    /\ WalkIdle
    /\ RunIdle
    /\ DateIdle
    /\ DnaIdle
    /\ ChannelIdle
    /\ CellsheetIdle

\* main.rs query up to the loop over the queries
CollectArgs ==
    /\ q_pc = "args"
    /\ q_queries' = [k \in 1..Len(q_args.lines) |-> Wrapped(q_args.lines[k])]
    /\ q_filters' = CollectFilters(q_args.filter, 1, NoFilters)
    /\ q_k' = 1
    /\ q_pc' = IF Len(q_args.lines) = 0 THEN "done" ELSE "queries"
    /\ UNCHANGED <<q_store, q_args, q_candidates, q_calls>>
    /\ UNCHANGED notQuery

\* candidates.extend(..) with the result r of the query q_k
QueryReturns(r) ==
    /\ q_calls' = Append(q_calls, [needle |-> q_queries[q_k], res |-> r])
    /\ q_candidates' = q_candidates \union r.samples
    /\ q_pc' = IF r.status = "panic" THEN "panic"
               ELSE IF q_k = Len(q_queries) THEN "done" ELSE "queries"

\* main.rs query, one iteration of the loop over the queries
RunQuery ==
    /\ q_pc = "queries"
    /\ \E r \in query(q_store, q_queries[q_k], q_filters, q_args.limit) : QueryReturns(r)
    /\ q_k' = q_k + 1
    /\ UNCHANGED <<q_store, q_args, q_queries, q_filters>>
    /\ UNCHANGED notQuery

QueryNext == CollectArgs \/ RunQuery

SpecQuery == QueryInit /\ [][QueryNext]_vars

\* the comparison of the claim for the key and the value v: strict
StrictlyCompared(s, key, v) ==
    /\ key = "cells>" => (IsSome(s.cells) /\ Unwrap(s.cells) > v)
    /\ key = "cells<" => (IsSome(s.cells) /\ Unwrap(s.cells) < v)
    /\ key = "cells" => (IsSome(s.cells) /\ Unwrap(s.cells) = v)
    /\ key = "lims_id>" => (IsSome(s.lims_id) /\ Unwrap(s.lims_id) > v)
    /\ key = "lims_id<" => (IsSome(s.lims_id) /\ Unwrap(s.lims_id) < v)
    /\ key = "lims_id" => (IsSome(s.lims_id) /\ Unwrap(s.lims_id) = v)

\* the comparison the statement makes for the key and the value v: inclusive
Compared(s, key, v) ==
    /\ key = "cells>" => (IsSome(s.cells) /\ Unwrap(s.cells) >= v)
    /\ key = "cells<" => (IsSome(s.cells) /\ Unwrap(s.cells) <= v)
    /\ key = "cells" => (IsSome(s.cells) /\ Unwrap(s.cells) = v)
    /\ key = "lims_id>" => (IsSome(s.lims_id) /\ Unwrap(s.lims_id) >= v)
    /\ key = "lims_id<" => (IsSome(s.lims_id) /\ Unwrap(s.lims_id) <= v)
    /\ key = "lims_id" => (IsSome(s.lims_id) /\ Unwrap(s.lims_id) = v)

\* the numeric filters of the command
NumericFilters == DOMAIN q_filters \cap NumericKeys

\* the samples of the store with a filename the pattern matches
FragmentMatches(needle) == {s \in q_store : \E f \in s.files : ILike(f, needle)}

\* C8 as stated: with the filter key cells> (cells<, lims_id>, lims_id<) and a
\* value, the returned samples have a value strictly greater (less) than the
\* given one; cells and lims_id are equalities; a sample without the value is
\* not returned.
C8_StrictComparisons ==
    \A i \in 1..Len(q_calls) :
        q_calls[i].res.status = "ok" =>
            \A s \in q_calls[i].res.samples : \A key \in NumericFilters :
                StrictlyCompared(s, key, DigitsValue(q_filters[key]))

\* C8, amended: with the filter key cells> and the value v the returned samples
\* are those with a cell count of at least v, with cells< of at most v, with
\* cells of exactly v, and the same for lims_id; a sample without the value is
\* not returned.  Without a limit and with numeric filters only, a query
\* returns every sample that a filename matches the fragment of and that all
\* the comparisons hold for.
C8_InclusiveComparisons ==
    \A i \in 1..Len(q_calls) :
        q_calls[i].res.status = "ok" =>
            /\ \A s \in q_calls[i].res.samples : \A key \in NumericFilters :
                    Compared(s, key, DigitsValue(q_filters[key]))
            /\ (q_args.limit = None /\ DOMAIN q_filters \subseteq NumericKeys) =>
                    q_calls[i].res.samples =
                        {s \in FragmentMatches(q_calls[i].needle) : \A key \in NumericFilters :
                            Compared(s, key, DigitsValue(q_filters[key]))}

\* a query with cells>=1000 returned the sample with exactly 1000 cells and
\* the one with 1001, and neither the one with 999 nor the one with none
C8_Witness ==
    /\ q_pc = "done"
    /\ q_args.filter = <<"cells>=1000">>
    /\ q_args.lines = <<"a">>
    /\ Cardinality(q_store) = 4
    /\ {s.id : s \in q_candidates} = {1, 2}

\* C9: when a limit n is given, the samples returned for a query command are
\* at most n, for one fragment and for the union over several fragments.
C9_LimitBoundsUnion ==
    IsSome(q_args.limit) => Cardinality(q_candidates) <= Unwrap(q_args.limit)

(***************************************************************************)
(* Export: SampleSheet::write_csv and write_xlsx (src/src/samplesheet.rs)  *)
(***************************************************************************)
\* models::Sample of an entry of the sheet
ExportSample(run, name, dna_nr, primer_set, project, lims_id, cells) ==
    [run |-> run, name |-> name, dna_nr |-> dna_nr, primer_set |-> primer_set,
     project |-> project, lims_id |-> lims_id, cells |-> cells]

basic_header == <<"Sample", "run", "DNA nr", "primer set", "project", "LIMS ID", "cells">>

\* extra_cols.get(col).unwrap_or("")
ExtraOrEmpty(e, col) == IF col \in DOMAIN e.extra_cols THEN e.extra_cols[col] ELSE ""

\* x.unwrap_or("") of an Option<String>
TextOrEmpty(x) == IF IsSome(x) THEN Unwrap(x) ELSE ""

\* x.map(to_string).unwrap_or("") of an Option of a number
NumberOrEmpty(x) == IF IsSome(x) THEN IntToString(Unwrap(x)) ELSE ""

\* get_unique_run_id: first part of the run by _, a dash, last part by -
UniqueRunId_first(underscore_parts, dash_parts) ==
    underscore_parts[1] \o "-" \o dash_parts[1]
UniqueRunId(underscore_parts, dash_parts) ==
    underscore_parts[1] \o "-" \o dash_parts[Len(dash_parts)]

get_unique_run_id(e) == UniqueRunId(Split(e.model.run, "_"), Split(e.model.run, "-"))

has_multiple_runs(entries) == Cardinality({entries[k].model.run : k \in 1..Len(entries)}) > 1

\* the match on the column of a cell that is not overridden
ModelCell(e, col, multiple) ==
    IF col = "Sample" THEN
        IF multiple THEN get_unique_run_id(e) \o "-" \o e.model.name ELSE e.model.name
    ELSE IF col = "run" THEN e.model.run
    ELSE IF col = "DNA nr" THEN TextOrEmpty(e.model.dna_nr)
    ELSE IF col = "primer set" THEN TextOrEmpty(e.model.primer_set)
    ELSE IF col = "project" THEN TextOrEmpty(e.model.project)
    ELSE IF col = "LIMS ID" THEN NumberOrEmpty(e.model.lims_id)
    ELSE IF IsSome(e.model.cells) THEN IntToString(Unwrap(e.model.cells))
    ELSE ExtraOrEmpty(e, col)

\* the value of a basic column of an entry
BasicCell_model(e, col, overrides, multiple) == ModelCell(e, col, multiple)
BasicCell(e, col, overrides, multiple) ==
    IF col \in overrides THEN ExtraOrEmpty(e, col) ELSE ModelCell(e, col, multiple)

\* a set of strings in sorted order (sort_unstable and dedup); the order of
\* the headers of the model is their order in HeaderOrder
HeaderOrder == <<"cells", "colour", "project">>

Sorted(S) == SelectSeq(HeaderOrder, LAMBDA h : h \in S)

\* all_sans_basic: the extra columns of all entries, without the basic ones
AllHeaders(entries) == UNION {DOMAIN entries[k].extra_cols : k \in 1..Len(entries)}

all_sans_basic(entries) == Sorted(AllHeaders(entries) \ Range(basic_header))

\* the cells of the row of an entry: the basic columns, then the extra ones
EntryCells(e, overrides, multiple, extra) ==
    [c \in 1..Len(basic_header) |-> BasicCell(e, basic_header[c], overrides, multiple)]
        \o [c \in 1..Len(extra) |-> ExtraOrEmpty(e, extra[c])]

\* join of a sequence of strings
RECURSIVE Join(_, _)
Join(parts, separator) ==
    IF Len(parts) = 0 THEN ""
    ELSE IF Len(parts) = 1 THEN parts[1]
    ELSE parts[1] \o separator \o Join(Tail(parts), separator)

RECURSIVE CsvLines(_, _, _)
CsvLines(rows, separator, k) ==
    IF k > Len(rows) THEN ""
    ELSE Join(rows[k], separator) \o "\n" \o CsvLines(rows, separator, k + 1)

\* the rows both writers write: the header, then one row for each entry
SheetRows(entries, overrides, multiple, extra) ==
    <<basic_header \o extra>> \o
        [k \in 1..Len(entries) |-> EntryCells(entries[k], overrides, multiple, extra)]

\* write_csv: the text written to the file
write_csv(entries, separator, overrides) ==
    CsvLines(SheetRows(entries, overrides, has_multiple_runs(entries), all_sans_basic(entries)),
             separator, 1)

\* write_xlsx: the cells written to the sheet, by row and column
write_xlsx(entries, overrides) ==
    SheetRows(entries, overrides, has_multiple_runs(entries), all_sans_basic(entries))

(***************************************************************************)
(* Specification of the export: the entries of a sheet, the overrides and  *)
(* the separator; the sheet is written as text and as a workbook.          *)
(***************************************************************************)
MaxEntries == 2

ExportSamples ==
    { ExportSample("210802_M1_0001-AAA", "S1", Some("21-00123"), Some("FR1"), Some("P1"),
                   Some(7), Some(1000)),
      ExportSample("210803_M1_0002", "S1", None, None, None, None, None),
      ExportSample("210802_M1_0001-AAA", "S2", Some("21-00124"), None, Some("P2"),
                   Some(0 - 8), None) }

\* a sample S1 of another run of the same day and flow cell suffix
OtherRunSample == ExportSample("210802_M2_0007-AAA", "S1", None, None, None, None, None)

NoExtra == [h \in {} |-> ""]

ExtraMaps ==
    { NoExtra,
      [h \in {"project"} |-> "PX"],
      [h \in {"cells", "colour"} |-> IF h = "cells" THEN "55" ELSE "red"] }

ExportEntries ==
    {[model |-> s, extra_cols |-> x] : s \in ExportSamples, x \in ExtraMaps}
        \union {[model |-> OtherRunSample, extra_cols |-> NoExtra]}

OverrideUniverse == {"project", "cells", "Sample"}

Separators == {"\t", ","}

ExportInit ==
    /\ x_entries \in SeqsUpTo(ExportEntries, MaxEntries)
    /\ x_overrides \in SUBSET OverrideUniverse
    /\ x_separator \in Separators
    /\ x_csv = None
    /\ x_sheet = None
    /\ AssignIdle
    /\ StoreIdle
    /\ MatchIdle
    /\ QueryIdle
    /\ ExtractIdle
    /\ WalkIdle
    /\ RunIdle
    /\ DateIdle
    /\ DnaIdle
    /\ ChannelIdle
    /\ CellsheetIdle

\* SampleSheet::write_csv
WriteCsv ==
    /\ x_csv = None
    /\ x_csv' = Some(write_csv(x_entries, x_separator, x_overrides))
    /\ UNCHANGED <<x_entries, x_overrides, x_separator, x_sheet>>
    /\ UNCHANGED notExport

\* SampleSheet::write_xlsx
WriteXlsx ==
    /\ x_sheet = None
    /\ x_sheet' = Some(write_xlsx(x_entries, x_overrides))
    /\ UNCHANGED <<x_entries, x_overrides, x_separator, x_csv>>
    /\ UNCHANGED notExport

ExportNext == WriteCsv \/ WriteXlsx

SpecExport == ExportInit /\ [][ExportNext]_vars

\* the canonical sample field of a basic column, empty when absent
CanonicalField(e, col) ==
    CASE col = "Sample" -> e.model.name
      [] col = "run" -> e.model.run
      [] col = "DNA nr" -> IF e.model.dna_nr = None THEN "" ELSE e.model.dna_nr[1]
      [] col = "primer set" -> IF e.model.primer_set = None THEN "" ELSE e.model.primer_set[1]
      [] col = "project" -> IF e.model.project = None THEN "" ELSE e.model.project[1]
      [] col = "LIMS ID" -> IF e.model.lims_id = None THEN "" ELSE IntToString(e.model.lims_id[1])
      [] col = "cells" -> IF e.model.cells = None THEN "" ELSE IntToString(e.model.cells[1])

\* the cell of the claim: the extra column if overridden, else the field
ClaimedCell(e, col) ==
    IF col \in x_overrides
    THEN (IF col \in DOMAIN e.extra_cols THEN e.extra_cols[col] ELSE "")
    ELSE CanonicalField(e, col)

\* the entries of the sheet are of more than one run
SeveralRuns == \E a, b \in 1..Len(x_entries) : x_entries[a].model.run # x_entries[b].model.run

\* the cell as the code gives it: as claimed, but Sample is prefixed with the
\* run's short id when the entries are of several runs, and cells is the
\* extra column cells when the sample has no cell count
ExportedCell(e, col) ==
    IF col \in x_overrides THEN ClaimedCell(e, col)
    ELSE IF col = "Sample" /\ SeveralRuns
        THEN Split(e.model.run, "_")[1] \o "-" \o Split(e.model.run, "-")[Len(Split(e.model.run, "-"))]
                \o "-" \o e.model.name
    ELSE IF col = "cells" /\ e.model.cells = None /\ "cells" \in DOMAIN e.extra_cols
        THEN e.extra_cols["cells"]
    ELSE CanonicalField(e, col)

\* the line of the text for the entry k: lines are ended by a line feed and
\* no value of the model holds one
CsvLine(k) == Split(Unwrap(x_csv), "\n")[k + 1]

\* the basic cells of a line: what is written up to the seventh separator
RECURSIVE JoinedCells(_, _)
JoinedCells(e, c) ==
    IF c = 1 THEN ClaimedCell(e, basic_header[1])
    ELSE JoinedCells(e, c - 1) \o x_separator \o ClaimedCell(e, basic_header[c])

RECURSIVE JoinedExported(_, _)
JoinedExported(e, c) ==
    IF c = 1 THEN ExportedCell(e, basic_header[1])
    ELSE JoinedExported(e, c - 1) \o x_separator \o ExportedCell(e, basic_header[c])

\* C10 as stated: in the export, the cell of every entry and every basic
\* column is the entry's extra-column value if the column is in overrides
\* (empty if the entry has none), otherwise the canonical sample field, empty
\* when absent.
C10_CellsAsClaimed ==
    /\ IsSome(x_sheet) =>
          \A k \in 1..Len(x_entries) : \A c \in 1..Len(basic_header) :
              Unwrap(x_sheet)[k + 1][c] = ClaimedCell(x_entries[k], basic_header[c])
    /\ IsSome(x_csv) =>
          \A k \in 1..Len(x_entries) :
              StartsWith(CsvLine(k), JoinedCells(x_entries[k], Len(basic_header)))

\* C10, amended: the cell is the entry's extra-column value if the column is
\* in overrides (empty if the entry has none); otherwise it is the canonical
\* sample field, empty when absent, except that Sample is prefixed with the
\* short id of the run when the entries are of more than one run, and that
\* cells is the entry's extra column cells when the sample has no cell count.
C10_CellsExported ==
    /\ IsSome(x_sheet) =>
          \A k \in 1..Len(x_entries) : \A c \in 1..Len(basic_header) :
              Unwrap(x_sheet)[k + 1][c] = ExportedCell(x_entries[k], basic_header[c])
    /\ IsSome(x_csv) =>
          \A k \in 1..Len(x_entries) :
              StartsWith(CsvLine(k), JoinedExported(x_entries[k], Len(basic_header)))

\* both files are written with project overridden: an entry with the extra
\* column project has its value in the cell, not the project of the sample,
\* and an entry without it has an empty cell
C10_Witness ==
    /\ IsSome(x_sheet)
    /\ IsSome(x_csv)
    /\ x_overrides = {"project"}
    /\ Len(x_entries) = 2
    /\ x_entries[1].model.project = Some("P1")
    /\ "project" \in DOMAIN x_entries[1].extra_cols
    /\ Unwrap(x_sheet)[2][5] = "PX"
    /\ x_entries[2].model.project = Some("P2")
    /\ "project" \notin DOMAIN x_entries[2].extra_cols
    /\ Unwrap(x_sheet)[3][5] = ""

\* the run identifier of the claim: the text before the first underscore of
\* the run name, a dash, the text after its last dash
FirstUnderscoreToken(run) ==
    IF FirstIndexFrom(run, "_", 1) = 0 THEN run
    ELSE SubSeq(run, 1, FirstIndexFrom(run, "_", 1) - 1)

LastDashToken(run) ==
    IF LastIndexFrom(run, "-", Len(run)) = 0 THEN run
    ELSE SubSeq(run, LastIndexFrom(run, "-", Len(run)) + 1, Len(run))

RunIdentifier(run) == FirstUnderscoreToken(run) \o "-" \o LastDashToken(run)

\* the Sample value of the claim for an entry
PrefixedSample(e) ==
    IF SeveralRuns THEN RunIdentifier(e.model.run) \o "-" \o e.model.name ELSE e.model.name

\* C11 as stated: in an export whose entries span more than one run the Sample
\* value of every row is the sample name prefixed with the run identifier, and
\* in an export of a single run it is the sample name without a prefix.
C11_SampleAlwaysPrefixed ==
    /\ IsSome(x_sheet) =>
          \A k \in 1..Len(x_entries) : Unwrap(x_sheet)[k + 1][1] = PrefixedSample(x_entries[k])
    /\ IsSome(x_csv) =>
          \A k \in 1..Len(x_entries) :
              StartsWith(CsvLine(k), PrefixedSample(x_entries[k]) \o x_separator)

\* C11, amended: when Sample is not among the overrides, the Sample value of
\* every row is the sample name prefixed with the run identifier and a dash
\* if the entries span more than one run, and the sample name alone if they
\* are of a single run.
C11_SamplePrefixedUnlessOverridden ==
    "Sample" \notin x_overrides => C11_SampleAlwaysPrefixed

\* a sheet of two runs is written without overrides of Sample: both rows carry
\* the identifier of their run
C11_Witness ==
    /\ IsSome(x_sheet)
    /\ IsSome(x_csv)
    /\ "Sample" \notin x_overrides
    /\ Len(x_entries) = 2
    /\ x_entries[1].model.run = "210802_M1_0001-AAA"
    /\ x_entries[2].model.run = "210803_M1_0002"
    /\ Unwrap(x_sheet)[2][1] = "210802-AAA-S1"
    /\ Unwrap(x_sheet)[3][1] = "210803-210803_M1_0002-S1"

(***************************************************************************)
(* FASTQ extraction: SampleSheet::extract_fastqs, extract_from_zip and     *)
(* extract_from_dir (src/src/samplesheet.rs)                               *)
(***************************************************************************)
\* Path::file_name of a file path: its last component
FileName(f) == SubSeq(f, LastIndexFrom(f, "/", Len(f)) + 1, Len(f))

\* Path::extension: what follows the last dot of the file name, if the dot is
\* not its first character
ExtensionAt(name, dot) == IF dot > 1 THEN Some(SubSeq(name, dot + 1, Len(name))) ELSE None

PathExtension(path) == ExtensionAt(FileName(path), LastIndexFrom(FileName(path), ".", Len(FileName(path))))

\* runs: the sorted, deduplicated runs of the entries
ExtractRuns(entries) == {entries[k].run : k \in 1..Len(entries)}

\* prefix: the run id and a dash if the entries are of several runs
ExtractPrefix(entry, runs) ==
    IF Cardinality(runs) > 1 THEN get_unique_run_id([model |-> entry]) \o "-" ELSE ""

\* the file a worker writes for a fastq: prefix and file name, in targetdir
TargetOf(entry, f, runs) == ExtractPrefix(entry, runs) \o FileName(f)

\* how the worker of an entry goes about its run path: "zip", "dir" or "skip"
ExtractKind(ext) ==
    IF ext = None THEN "dir"
    ELSE IF ToLower(Unwrap(ext)) = "zip" THEN "zip"
    ELSE "skip"

\* extract_fastqs returns Ok(()) after the parallel loop, whatever was logged
ExtractResult_first(logged) == IF logged = {} THEN "ok" ELSE "err"
ExtractResult(logged) == "ok"

(***************************************************************************)
(* Specification of the extraction: the entries with their fastq paths,    *)
(* the run table, what cannot be read, and one worker for each entry.      *)
(***************************************************************************)
MaxExtracted == 2
MaxBroken == 1

ExtractEntry(id, run, name, files) == [id |-> id, run |-> run, name |-> name, files |-> files]

ExtractEntries ==
    { ExtractEntry(1, "210802_M1_0001-AAA", "AB", <<"AB_S1_R1.fastq.gz", "AB_S1_R2.fastq.gz">>),
      ExtractEntry(2, "210803_M1_0002", "AB", <<"Data/AB_S1_R1.fastq.gz">>),
      ExtractEntry(3, "210802_M1_0001-AAA", "AC",
                   <<"Data/AC_S2_R1.fastq.gz", "Alignment_1/AC_S2_R1.fastq.gz">>),
      ExtractEntry(4, "210804_M1_0003", "Z", <<"Z_S9_R1.fastq.gz">>) }

\* run::path of the run table
RunPaths ==
    [run \in {"210802_M1_0001-AAA", "210803_M1_0002", "210804_M1_0003"} |->
        IF run = "210802_M1_0001-AAA" THEN "/vault/2021/08/210802_M1_0001-AAA"
        ELSE IF run = "210803_M1_0002" THEN "/vault/2021/08/210803_M1_0002.ZIP"
        ELSE "/vault/2021/08/210804_M1_0003.tar"]

\* what may fail to be read: a fastq of a run, or (file "") the archive itself
Sources ==
    UNION {{<<e.run, e.files[k]>> : k \in 1..Len(e.files)} : e \in ExtractEntries}
        \union {<<"210803_M1_0002", "">>}

ExtractInit ==
    /\ t_entries \in SeqsUpTo(ExtractEntries, MaxExtracted)
    /\ t_broken \in {B \in SUBSET Sources : Cardinality(B) <= MaxBroken}
    /\ t_db \in {"ok", "no_runs", "no_files"}
    /\ t_pc = "ready"
    /\ t_pos = <<>>
    /\ t_writes = <<>>
    /\ t_logged = {}
    /\ t_result = None
    /\ AssignIdle
    /\ StoreIdle
    /\ MatchIdle
    /\ QueryIdle
    /\ ExportIdle
    /\ WalkIdle
    /\ RunIdle
    /\ DateIdle
    /\ DnaIdle
    /\ ChannelIdle
    /\ CellsheetIdle

\* extract_fastqs up to the parallel loop: the run paths are loaded
\* (expect("Could not get run")), then the fastq paths of every entry (?)
StartExtract ==
    /\ t_pc = "ready"
    /\ t_pc' = IF t_db = "no_runs" THEN "panic" ELSE IF t_db = "no_files" THEN "done" ELSE "running"
    /\ t_result' = IF t_db = "no_files" THEN Some("err") ELSE None
    /\ t_pos' = [k \in 1..Len(t_entries) |-> 1]
    /\ UNCHANGED <<t_entries, t_broken, t_db, t_writes, t_logged>>
    /\ UNCHANGED notExtract

\* the worker i with the next fastq f of its entry, whose run path is of kind
\* kind: it skips the entry, or fails (the error is logged and the entry
\* left), or copies the file
WorkerExtracts(i, f, kind) ==
    IF kind = "skip" THEN
        /\ t_pos' = [t_pos EXCEPT ![i] = Len(t_entries[i].files) + 1]
        /\ UNCHANGED <<t_writes, t_logged>>
    ELSE IF <<t_entries[i].run, f>> \in t_broken
            \/ (kind = "zip" /\ <<t_entries[i].run, "">> \in t_broken) THEN
        /\ t_pos' = [t_pos EXCEPT ![i] = Len(t_entries[i].files) + 1]
        /\ t_logged' = t_logged \union {i}
        /\ UNCHANGED t_writes
    ELSE
        /\ t_pos' = [t_pos EXCEPT ![i] = @ + 1]
        /\ t_writes' = Append(t_writes, [worker |-> i, source |-> f,
                                         target |-> TargetOf(t_entries[i], f, ExtractRuns(t_entries))])
        /\ UNCHANGED t_logged

\* one step of the worker of an entry in the parallel loop
ExtractFile ==
    /\ t_pc = "running"
    /\ \E i \in 1..Len(t_entries) :
          /\ t_pos[i] <= Len(t_entries[i].files)
          /\ WorkerExtracts(i, t_entries[i].files[t_pos[i]],
                            ExtractKind(PathExtension(RunPaths[t_entries[i].run])))
    /\ UNCHANGED <<t_entries, t_broken, t_db, t_pc, t_result>>
    /\ UNCHANGED notExtract

\* every worker is through: extract_fastqs returns
FinishExtract ==
    /\ t_pc = "running"
    /\ \A i \in 1..Len(t_entries) : t_pos[i] > Len(t_entries[i].files)
    /\ t_pc' = "done"
    /\ t_result' = Some(ExtractResult(t_logged))
    /\ UNCHANGED <<t_entries, t_broken, t_db, t_pos, t_writes, t_logged>>
    /\ UNCHANGED notExtract

ExtractNext == StartExtract \/ ExtractFile \/ FinishExtract

SpecExtract == ExtractInit /\ [][ExtractNext]_vars

\* C12: during the extraction no two writes, of different entries or of
\* different files of one entry, go to the same target file.
C12_TargetsDistinct ==
    \A a, b \in 1..Len(t_writes) : t_writes[a].target = t_writes[b].target => a = b

\* the entry i can be extracted whole: its run path is a directory or a zip
\* archive and nothing of it is broken
Intact(i) ==
    /\ \A k \in 1..Len(t_entries[i].files) : <<t_entries[i].run, t_entries[i].files[k]>> \notin t_broken
    /\ <<t_entries[i].run, "">> \notin t_broken
    /\ t_entries[i].run # "210804_M1_0003"

\* C13: when extract_fastqs is through its loop it returns Ok, although the
\* extraction of a file of an entry failed; the failure is logged, and every
\* file of every entry that can be extracted whole has been copied.
C13_FailureOnlyLogged ==
    (t_pc = "done" /\ t_db = "ok") =>
        /\ t_result = Some("ok")
        /\ \A i \in 1..Len(t_entries) :
              IF Intact(i)
              THEN \A k \in 1..Len(t_entries[i].files) :
                      \E w \in 1..Len(t_writes) :
                          t_writes[w].worker = i /\ t_writes[w].source = t_entries[i].files[k]
              ELSE t_entries[i].run = "210804_M1_0003" \/ i \in t_logged

\* the second file of the first entry could not be read: that was logged, the
\* other entry has its file, and the call is over
C13_Witness ==
    /\ t_pc = "done"
    /\ t_result = Some("ok")
    /\ Len(t_entries) = 2
    /\ t_entries[1].id = 1
    /\ t_entries[2].id = 2
    /\ t_broken = {<<"210802_M1_0001-AAA", "AB_S1_R2.fastq.gz">>}
    /\ t_logged = {1}
    /\ \E w \in 1..Len(t_writes) :
          t_writes[w].worker = 2 /\ t_writes[w].target = "210803-210803_M1_0002-AB_S1_R1.fastq.gz"

\* the date a is strictly earlier than the date b, both <<year, month, day>>
DateBefore(a, b) ==
    \/ a[1] < b[1]
    \/ a[1] = b[1] /\ a[2] < b[2]
    \/ a[1] = b[1] /\ a[2] = b[2] /\ a[3] < b[3]

\* the depth-3 entry is dated strictly before every run of the store
BeforeWatermark(p, store) ==
    /\ parse_date(p.name).status = "ok"
    /\ \A row \in store.run : DateBefore(parse_date(p.name).date, row.date)

\* C14: the update works with the earliest run date of the store as the
\* watermark: when the store holds runs, no depth-3 entry dated strictly
\* before that date is handed to the parsing of runs; when the store is empty,
\* every depth-3 entry of the tree is.
C14_WatermarkBoundsUpdate ==
    u_pc = "build" =>
        IF db.run = {}
        THEN Range(u_paths) = tree
        ELSE \A k \in 1..Len(u_paths) : ~BeforeWatermark(u_paths[k], db)

(***************************************************************************)
(* RunWalker: parse_date, file_filter and Walker::run                      *)
(* (src/vquery/src/runwalker.rs)                                           *)
(***************************************************************************)
\* str::parse of a short slice as i32 (minus) or u8: an optional sign and digits
ShortDigits(body, sign) ==
    IF Len(body) > 0 /\ AllDigits(body) THEN Some(sign * DigitsValue(body)) ELSE None

ParseShort(s, minus) ==
    IF StartsWith(s, "+") THEN ShortDigits(Tail(s), 1)
    ELSE IF minus /\ StartsWith(s, "-") THEN ShortDigits(Tail(s), 0 - 1)
    ELSE ShortDigits(s, 1)

\* time::Date::try_from_ymd is an error on an invalid calendar date
try_from_ymd(y, m, d) ==
    IF m \in 1..12 /\ d >= 1 /\ d <= DaysInMonth(y, m)
    THEN [status |-> "ok", date |-> <<y, m, d>>]
    ELSE [status |-> "err", date |-> <<>>]

WalkerDateFromParts(year, month, day) ==
    IF year = None \/ month = None \/ day = None
    THEN [status |-> "err", date |-> <<>>]
    ELSE try_from_ymd(Unwrap(year) + 2000, Unwrap(month), Unwrap(day))

\* runwalker.rs parse_date
walker_parse_date(source) ==
    IF Len(source) < 6 THEN [status |-> "err", date |-> <<>>]
    ELSE WalkerDateFromParts(ParseShort(SubSeq(source, 1, 2), TRUE),
                             ParseShort(SubSeq(source, 3, 4), FALSE),
                             ParseShort(SubSeq(source, 5, 6), FALSE))

\* an entry of the tree under the root: its names from the root down, and
\* whether it is a directory
WalkEntry(path, is_dir) == [path |-> path, is_dir |-> is_dir]

Depth(entry) == Len(entry.path)

EntryName(entry) == entry.path[Len(entry.path)]

\* file_name[0..n].parse().unwrap() < limit: "panic" when the name is shorter
\* than n or the slice is no number
LeadingBelow(name, n, limit) ==
    IF Len(name) < n \/ ParseShort(SubSeq(name, 1, n), TRUE) = None THEN "panic"
    ELSE IF Unwrap(ParseShort(SubSeq(name, 1, n), TRUE)) < limit THEN "skip"
    ELSE "pass"

\* the run directory at depth 3 against the start date d
RunDirAgainst(file_date, d) ==
    IF file_date.status # "ok" THEN "skip"
    ELSE IF DateBefore(file_date.date, d) THEN "skip"
    ELSE "pass"

\* file_filter on a directory
DirFilter(entry, start_date) ==
    IF Depth(entry) = 0 THEN "pass"
    ELSE IF Depth(entry) > 3 THEN "skip"
    ELSE IF start_date = None THEN "pass"
    ELSE IF Depth(entry) = 1 THEN LeadingBelow(EntryName(entry), 3, Unwrap(start_date)[1])
    ELSE IF Depth(entry) = 2 THEN LeadingBelow(EntryName(entry), 1, Unwrap(start_date)[2])
    ELSE RunDirAgainst(walker_parse_date(EntryName(entry)), Unwrap(start_date))

\* file_filter: "pass", "skip" or "panic"; a file that is no directory passes
\* if its name ends with .zip
file_filter(entry, start_date) ==
    IF entry.is_dir THEN DirFilter(entry, start_date)
    ELSE IF EndsWith(ToLower(EntryName(entry)), ".zip") THEN "pass"
    ELSE "skip"

(***************************************************************************)
(* Specification of the walk: a tree under the root and a start date; the  *)
(* walker visits the entries depth first and sends those of depth 3.       *)
(***************************************************************************)
MaxLeaves == 2

WalkLeaves ==
    { WalkEntry(<<"2021", "08", "210802_M1_0001">>, TRUE),
      WalkEntry(<<"2021", "08", "210806_M1_0005.zip">>, FALSE),
      WalkEntry(<<"2021", "12", "211201_M1_0007">>, TRUE),
      WalkEntry(<<"2021", "12", "notes.zip">>, FALSE),
      WalkEntry(<<"2022", "01", "220103_M1_0009">>, TRUE),
      WalkEntry(<<"2021", "08", "notes.txt">>, FALSE),
      WalkEntry(<<"2021", "08", "210802_M1_0001", "Data.zip">>, FALSE),
      WalkEntry(<<"old.zip">>, FALSE),
      WalkEntry(<<"21", "08", "210807_M1_0006">>, TRUE),
      WalkEntry(<<"2021", "12", "211301_M1_0002">>, TRUE) }

\* the directories above an entry, the root included
Ancestors(entry) == {WalkEntry(SubSeq(entry.path, 1, k), TRUE) : k \in 0..(Len(entry.path) - 1)}

WalkTree(leaves) == leaves \union UNION {Ancestors(l) : l \in leaves}

WalkRoot == WalkEntry(<<>>, TRUE)

\* a start date: any date; the dates of a store are of the years 1991 to 2099
StartDates == {None, Some(<<2021, 8, 5>>), Some(<<202, 1, 1>>)}

Children(t, entry) ==
    {c \in t : Depth(c) = Depth(entry) + 1 /\ SubSeq(c.path, 1, Depth(entry)) = entry.path}

WalkInit ==
    /\ \E leaves \in SUBSET WalkLeaves :
          /\ Cardinality(leaves) <= MaxLeaves
          /\ w_tree = WalkTree(leaves) \union {WalkRoot}
    /\ w_start \in StartDates
    /\ w_pc = "ready"
    /\ w_stack = <<>>
    /\ w_sent = <<>>
    /\ AssignIdle
    /\ StoreIdle
    /\ MatchIdle
    /\ QueryIdle
    /\ ExportIdle
    /\ ExtractIdle
    /\ RunIdle
    /\ DateIdle
    /\ DnaIdle
    /\ ChannelIdle
    /\ CellsheetIdle

\* Walker::run: WalkDir::new(ngsroot).into_iter()
StartWalk ==
    /\ w_pc = "ready"
    /\ w_pc' = "walking"
    /\ w_stack' = <<WalkRoot>>
    /\ UNCHANGED <<w_tree, w_start, w_sent>>
    /\ UNCHANGED notWalk

\* the entry on top of the stack with the verdict of the filter on it: a
\* passing entry of depth 3 is sent, and a passing directory is entered, its
\* entries in the order the file system gives them
Visited(entry, verdict) ==
    /\ w_pc' = IF verdict = "panic" THEN "panic" ELSE "walking"
    /\ w_sent' = IF verdict = "pass" /\ Depth(entry) = 3 THEN Append(w_sent, entry) ELSE w_sent
    /\ IF verdict = "pass" /\ entry.is_dir
       THEN \E order \in WalkOrders(Children(w_tree, entry)) : w_stack' = order \o Tail(w_stack)
       ELSE w_stack' = Tail(w_stack)

\* Walker::run, one iteration of the loop over filter_entry
VisitEntry ==
    /\ w_pc = "walking"
    /\ Len(w_stack) > 0
    /\ Visited(Head(w_stack), file_filter(Head(w_stack), w_start))
    /\ UNCHANGED <<w_tree, w_start>>
    /\ UNCHANGED notWalk

\* the walk is over: Ok(())
FinishWalk ==
    /\ w_pc = "walking"
    /\ Len(w_stack) = 0
    /\ w_pc' = "done"
    /\ UNCHANGED <<w_tree, w_start, w_stack, w_sent>>
    /\ UNCHANGED notWalk

WalkNext == StartWalk \/ VisitEntry \/ FinishWalk

SpecWalk == WalkInit /\ [][WalkNext]_vars

\* the entries of depth 3 that are a directory or a .zip file
RunEntries == {e \in w_tree : Depth(e) = 3 /\ (e.is_dir \/ EndsWith(ToLower(EntryName(e)), ".zip"))}

\* the name of the entry parses to a date on or after the start date
OnOrAfterStart(e) ==
    /\ walker_parse_date(EntryName(e)).status = "ok"
    /\ ~DateBefore(walker_parse_date(EntryName(e)).date, Unwrap(w_start))

\* C15: with a start date the walker yields every directory and .zip file of
\* depth 3 whose name parses to a date on or after it, whatever year and
\* month folder it lies in; without one it yields every directory and .zip
\* file of depth 3.
C15_YieldsFromWatermark ==
    w_pc = "done" =>
        \A e \in RunEntries : (w_start = None \/ OnOrAfterStart(e)) => e \in Range(w_sent)

RECURSIVE LeadingDigits(_)
LeadingDigits(name) ==
    IF Len(name) > 0 /\ IsDigit(Head(name)) THEN Head(name) \o LeadingDigits(Tail(name)) ELSE ""

FolderYear(entry) == DigitsValue(LeadingDigits(EntryName(entry)))

\* the walker is about to visit a year folder with a start date set
AtYearFolder ==
    /\ w_pc = "walking"
    /\ Len(w_stack) > 0
    /\ Head(w_stack).is_dir
    /\ Depth(Head(w_stack)) = 1
    /\ w_start # None

\* the step leaves the folder on top of the stack without entering it
SubtreeSkipped == w_pc' = "walking" /\ w_stack' = Tail(w_stack)

\* the step enters the folder on top of the stack
SubtreeDescended ==
    /\ w_pc' = "walking"
    /\ Len(w_stack') = Len(w_stack) - 1 + Cardinality(Children(w_tree, Head(w_stack)))
    /\ \A c \in Children(w_tree, Head(w_stack)) : c \in Range(w_stack')

\* C21: with a start date set, the subtree of a year folder of depth 1 is
\* skipped exactly when the leading numeric year of the folder is strictly
\* less than the year of the start date; a folder whose year is equal or
\* later is descended.
C21_YearFolderSkippedIffEarlier ==
    [][AtYearFolder =>
          IF FolderYear(Head(w_stack)) < Unwrap(w_start)[1]
          THEN SubtreeSkipped
          ELSE SubtreeDescended]_vars

(***************************************************************************)
(* Specification of the construction of one run: a run directory with the  *)
(* rows of its sample sheet and the lines of its cell sheet is built by    *)
(* Run::from_path and handed to the transaction of vaultdb::update.        *)
(***************************************************************************)
MaxSheetRows == 2
MaxCellLines == 2

SheetRowUniverse ==
    { SheetRow(8, "Sample_ID", "Sample_Project", "Description"),
      SheetRow(10, "A", "", "7"),
      SheetRow(6, "AB", "data_p", ""),
      SheetRow(11, "C", "", "9"),
      SheetRow(8, "B", "", ""),
      SheetRow(5, "B", "", ""),
      SheetRow(2, "B", "", ""),
      SheetRow(1, "B", "", ""),
      SheetRow(9, "21-99999999999", "", "") }

CellLineUniverse ==
    { CellLine(4, "sample_ID", "ng"),
      CellLine(4, "A", "2"),
      CellLine(4, "AB", "3"),
      CellLine(2, "A", "1"),
      CellLine(5, "C", "1"),
      CellLine(0, "", "") }

RunEntry(rows, lines) ==
    Entry("210806_M1_0005", TRUE, FALSE, Some(rows), <<"x/A_S2_R.fastq.gz">>,
          <<[name |-> "20210806_spikeINBC.csv", lines |-> lines]>>)

RunInit ==
    /\ \E rows \in SeqsUpTo(SheetRowUniverse, MaxSheetRows),
          lines \in SeqsUpTo(CellLineUniverse, MaxCellLines) :
          r_entry = RunEntry(rows, lines)
    /\ r_pc = "ready"
    /\ r_out = Pending
    /\ r_db = EmptyStore
    /\ AssignIdle
    /\ StoreIdle
    /\ MatchIdle
    /\ QueryIdle
    /\ ExportIdle
    /\ ExtractIdle
    /\ WalkIdle
    /\ DateIdle
    /\ DnaIdle
    /\ ChannelIdle
    /\ CellsheetIdle

\* Run::from_path on the entry
FromPath ==
    /\ r_pc = "ready"
    /\ \E o \in from_path(r_entry) :
          /\ r_out' = o
          /\ r_pc' = IF o.status = "panic" THEN "panic" ELSE "built"
    /\ UNCHANGED <<r_entry, r_db>>
    /\ UNCHANGED notRun

\* vaultdb::update from filter_map(.. .ok()) on: the batch is the run if it
\* was built, and the transaction inserts the batch into the empty store
IngestRun ==
    /\ r_pc = "built"
    /\ r_db' = InsertRuns(BuiltRuns(<<r_out>>), 1, EmptyStore, 1).db
    /\ r_pc' = "done"
    /\ UNCHANGED <<r_entry, r_out>>
    /\ UNCHANGED notRun

RunNext == FromPath \/ IngestRun

SpecRun == RunInit /\ [][RunNext]_vars

\* the rows of the sample sheet and the lines of the cell sheet of the entry
SheetOf == Unwrap(r_entry.sheet)
CellLinesOf == r_entry.cellsheets[1].lines

\* a table row: not the header line, and of at least 2 fields
TableRow(row) == ToLower(row.name) # "sample_id" /\ row.cols >= 2

\* a table row whose number of fields is not 6, 7, 9, 10 or more than 10
BadRow(row) == TableRow(row) /\ row.cols \notin {6, 7, 9} /\ row.cols < 10

\* the table row k is read: no table row before it ends the parsing, by its
\* number of fields or by the panic of the decomposition of its name
RowReached(k) ==
    \A j \in 1..(k - 1) :
        TableRow(SheetOf[j]) =>
            /\ ~BadRow(SheetOf[j])
            /\ SheetParsed(SheetOf[j].name, SheetOf[j].project).status = "ok"

\* C17: a table row of at least 2 fields whose number of fields is not 6, 7,
\* 9, 10 or more than 10 makes the parsing of the whole sheet fail: the
\* construction of the run returns an error, and no run, sample or fastq row
\* of the sheet, the rows before the bad one included, is inserted.
C17_BadRowFailsSheet ==
    (\E k \in 1..Len(SheetOf) : BadRow(SheetOf[k]) /\ RowReached(k)) =>
        /\ r_pc # "ready" => (r_pc = "built" \/ r_pc = "done") /\ r_out.status = "err"
        /\ r_pc = "done" => r_db = EmptyStore

\* a sheet with the row of A and then a row of 8 fields was parsed and the
\* batch committed: the store is empty
C17_Witness ==
    /\ r_pc = "done"
    /\ SheetOf = <<SheetRow(10, "A", "", "7"), SheetRow(8, "B", "", "")>>
    /\ r_out.status = "err"
    /\ r_db = EmptyStore

\* a line of the cell sheet that is not empty and has not 4 columns
MalformedLine(line) == line.cols # 0 /\ line.cols # 4

\* C18: if the cell sheet holds a non-empty row that has not exactly 4
\* columns, the run is still returned for ingestion and no sample of it
\* carries a cell count.
C18_MalformedLeavesNoCells ==
    ((\E k \in 1..Len(CellLinesOf) : MalformedLine(CellLinesOf[k])) /\ r_out.status = "ok") =>
        \A i \in 1..Len(r_out.run.samples) : r_out.run.samples[i].s.cells = None

(***************************************************************************)
(* Specification of the parsing of run dates: a name is parsed by          *)
(* parse_date of run.rs and by parse_date of runwalker.rs.                 *)
(***************************************************************************)
YearSegments == {"21", "00", "99", "2a", "-1"}
MonthSegments == {"01", "02", "08", "12", "13", "00", "1x", "-1"}
DaySegments == {"01", "28", "29", "30", "31", "00", "32", "x1"}
NameTails == {"", "_M1_0001"}

DateNames ==
    {y \o m \o d \o t : y \in YearSegments, m \in MonthSegments, d \in DaySegments, t \in NameTails}
        \union {"", "2108", "21080"}

DateInit ==
    /\ d_name \in DateNames
    /\ d_res = None
    /\ d_wres = None
    /\ AssignIdle
    /\ StoreIdle
    /\ MatchIdle
    /\ QueryIdle
    /\ ExportIdle
    /\ ExtractIdle
    /\ WalkIdle
    /\ RunIdle
    /\ DnaIdle
    /\ ChannelIdle
    /\ CellsheetIdle

\* run.rs parse_date on the name
ParseDate ==
    /\ d_res = None
    /\ d_res' = Some(parse_date(d_name))
    /\ UNCHANGED <<d_name, d_wres>>
    /\ UNCHANGED notDate

\* runwalker.rs parse_date on the name
WalkerParseDate ==
    /\ d_wres = None
    /\ d_wres' = Some(walker_parse_date(d_name))
    /\ UNCHANGED <<d_name, d_res>>
    /\ UNCHANGED notDate

DateNext == ParseDate \/ WalkerParseDate

SpecDate == DateInit /\ [][DateNext]_vars

\* the two characters from a position on parse as an integer
IsSegment(name, from) == ParseShort(SubSeq(name, from, from + 1), TRUE) # None

SegmentValue(name, from) == Unwrap(ParseShort(SubSeq(name, from, from + 1), TRUE))

IsCalendarDate(y, m, d) ==
    /\ m >= 1 /\ m <= 12 /\ d >= 1
    /\ d <= (IF m = 2 THEN (IF (y % 4 = 0 /\ y % 100 # 0) \/ y % 400 = 0 THEN 29 ELSE 28)
             ELSE IF m \in {4, 6, 9, 11} THEN 30 ELSE 31)

\* what the claim has the parsing of a name return
ClaimedDate(name) ==
    IF Len(name) < 6 THEN [status |-> "err", date |-> <<>>]
    ELSE IF ~(IsSegment(name, 1) /\ IsSegment(name, 3) /\ IsSegment(name, 5))
         THEN [status |-> "err", date |-> <<>>]
    ELSE IF ~IsCalendarDate(2000 + SegmentValue(name, 1), SegmentValue(name, 3), SegmentValue(name, 5))
         THEN [status |-> "err", date |-> <<>>]
    ELSE [status |-> "ok",
          date |-> <<2000 + SegmentValue(name, 1), SegmentValue(name, 3), SegmentValue(name, 5)>>]

\* C19: parse_date returns an error, and never panics, for a name shorter
\* than 6 characters, with a year, month or day segment that is no number, or
\* whose first six characters are no calendar date; for every other name it
\* returns the date 2000+YY, MM, DD.
C19_ParseDateErrsOrDates ==
    /\ d_res # None => Unwrap(d_res) = ClaimedDate(d_name)
    /\ d_wres # None => Unwrap(d_wres) = ClaimedDate(d_name)

(***************************************************************************)
(* Specification of the normalization of DNA numbers: a text is normalized *)
(* by normalize_dna_nr of samplesheet.rs, its result once more, and by     *)
(* normalize_dna_nr of sample.rs.                                          *)
(***************************************************************************)
DnaPrefixes == {"", "D-"}
DnaYears == {"1", "01", "21", "123", "ab", "", "4294967296"}
DnaNumbers == {"345", "12345", "123456", "00007", "x", "", "3-4"}

DnaInputs ==
    {p \o y \o "-" \o n : p \in DnaPrefixes, y \in DnaYears, n \in DnaNumbers}
        \union {"", "asdfjkl", "2112345", "D-"}

DnaInit ==
    /\ n_input \in DnaInputs
    /\ n_res = None
    /\ n_again = None
    /\ n_sres = None
    /\ AssignIdle
    /\ StoreIdle
    /\ MatchIdle
    /\ QueryIdle
    /\ ExportIdle
    /\ ExtractIdle
    /\ WalkIdle
    /\ RunIdle
    /\ DateIdle
    /\ ChannelIdle
    /\ CellsheetIdle

\* samplesheet.rs normalize_dna_nr on the input
Normalize ==
    /\ n_res = None
    /\ n_res' = Some(normalize_dna_nr(n_input))
    /\ UNCHANGED <<n_input, n_again, n_sres>>
    /\ UNCHANGED notDna

\* samplesheet.rs normalize_dna_nr on the value it returned
NormalizeAgain ==
    /\ n_res # None
    /\ Unwrap(n_res).status = "ok"
    /\ IsSome(Unwrap(n_res).value)
    /\ n_again = None
    /\ n_again' = Some(normalize_dna_nr(Unwrap(Unwrap(n_res).value)))
    /\ UNCHANGED <<n_input, n_res, n_sres>>
    /\ UNCHANGED notDna

\* sample.rs normalize_dna_nr on the input
SampleNormalize ==
    /\ n_sres = None
    /\ n_sres' = Some(sample_normalize_dna_nr(n_input))
    /\ UNCHANGED <<n_input, n_res, n_again>>
    /\ UNCHANGED notDna

DnaNext == Normalize \/ NormalizeAgain \/ SampleNormalize

SpecDna == DnaInit /\ [][DnaNext]_vars

\* the text is a number in decimal digits
IsDigits(s) == Len(s) > 0 /\ AllDigits(s)

\* the supported formats: an optional D-, a number, a dash, a number
SupportedParts(text) ==
    IF FirstIndexFrom(text, "-", 1) = 0 THEN <<>>
    ELSE <<SubSeq(text, 1, FirstIndexFrom(text, "-", 1) - 1),
           SubSeq(text, FirstIndexFrom(text, "-", 1) + 1, Len(text))>>

Unprefixed(text) == IF StartsWith(text, "D-") THEN SubSeq(text, 3, Len(text)) ELSE text

IsSupported(text) ==
    /\ Len(SupportedParts(Unprefixed(text))) = 2
    /\ IsDigits(SupportedParts(Unprefixed(text))[1])
    /\ IsDigits(SupportedParts(Unprefixed(text))[2])

\* the normal form: the year to two digits, a dash, the number to five
ClaimedNormalForm(text) ==
    FormatPadded(StripZeros(SupportedParts(Unprefixed(text))[1]), 2) \o "-"
        \o FormatPadded(StripZeros(SupportedParts(Unprefixed(text))[2]), 5)

\* what the claim has the normalization of a text return
ClaimedNormalized(text) ==
    [status |-> "ok",
     value |-> IF IsSupported(text) THEN Some(ClaimedNormalForm(text)) ELSE None]

\* C20: normalize_dna_nr returns the normal form (two-digit year, dash,
\* five-digit zero-padded number) for every input in a supported format and
\* None for every other input, with no other outcome; and normalizing a
\* normalized value returns it unchanged.
C20_NormalizeTotalIdempotent ==
    /\ n_res # None => Unwrap(n_res) = ClaimedNormalized(n_input)
    /\ n_again # None => Unwrap(n_again) = Unwrap(n_res)
    /\ (n_sres # None /\ IsSupported(n_input)) =>
          Unwrap(n_sres) = [status |-> "ok", value |-> ClaimedNormalForm(n_input)]

(***************************************************************************)
(* Specification of the channel of the walker: Walker::new makes a bounded *)
(* channel, create_receiver clones its receiving end, run sends the paths  *)
(* of depth 3 the walk yields and drops the sender when it returns.  A     *)
(* receiver reads until the channel is empty and disconnected.             *)
(***************************************************************************)
MaxDiscovered == 3
MaxCapacity == 2
MaxReceivers == 2

\* the paths the walk yields at depth 3, in the order it yields them
DiscoveredPaths == [k \in 1..MaxDiscovered |-> "2021/08/21080" \o NatToString(k) \o "_M1"]

\* crossbeam bounded(cap): a send blocks while cap messages are queued
ChannelFull(chan, cap) == Len(chan) >= cap

\* a blocking read returns an error when the channel is empty and no sender
\* is left
RecvDisconnected_never(chan, sender_alive) == FALSE
RecvDisconnected(chan, sender_alive) == Len(chan) = 0 /\ ~sender_alive

\* the receivers that are blocked in a read
Reading == {r \in 1..Len(c_rx) : c_rx[r] = "reading"}

ChannelInit ==
    /\ c_cap \in 0..MaxCapacity
    /\ \E n \in 0..MaxDiscovered : c_paths = SubSeq(DiscoveredPaths, 1, n)
    /\ c_pc = "new"
    /\ c_sent = 0
    /\ c_chan = <<>>
    /\ c_rx = <<>>
    /\ c_got = <<>>
    /\ AssignIdle
    /\ StoreIdle
    /\ MatchIdle
    /\ QueryIdle
    /\ ExportIdle
    /\ ExtractIdle
    /\ WalkIdle
    /\ RunIdle
    /\ DateIdle
    /\ DnaIdle
    /\ CellsheetIdle

\* Walker::create_receiver: self.rx.clone(); the receiver starts to read
CreateReceiver ==
    /\ c_pc = "new"
    /\ Len(c_rx) < MaxReceivers
    /\ c_rx' = Append(c_rx, "reading")
    /\ UNCHANGED <<c_cap, c_paths, c_pc, c_sent, c_chan, c_got>>
    /\ UNCHANGED notChannel

\* Walker::run is called: it consumes the walker
StartRun ==
    /\ c_pc = "new"
    /\ c_pc' = "running"
    /\ UNCHANGED <<c_cap, c_paths, c_sent, c_chan, c_rx, c_got>>
    /\ UNCHANGED notChannel

\* self.tx.send(path): with capacity 0 the message is handed to a receiver
\* that is blocked in a read; otherwise it is queued unless the channel is full
Send ==
    /\ c_pc = "running"
    /\ c_sent < Len(c_paths)
    /\ IF c_cap = 0
       THEN /\ \E r \in Reading : c_got' = Append(c_got, [receiver |-> r, path |-> c_paths[c_sent + 1]])
            /\ c_chan' = c_chan
       ELSE /\ ~ChannelFull(c_chan, c_cap)
            /\ c_chan' = Append(c_chan, c_paths[c_sent + 1])
            /\ c_got' = c_got
    /\ c_sent' = c_sent + 1
    /\ UNCHANGED <<c_cap, c_paths, c_pc, c_rx>>
    /\ UNCHANGED notChannel

\* the loop of run is over: Ok(()); the walker, and its sender, are dropped
ReturnRun ==
    /\ c_pc = "running"
    /\ c_sent = Len(c_paths)
    /\ c_pc' = "returned"
    /\ UNCHANGED <<c_cap, c_paths, c_sent, c_chan, c_rx, c_got>>
    /\ UNCHANGED notChannel

\* a blocking read of receiver r returns a message, and r reads again
Recv(r) ==
    /\ c_rx[r] = "reading"
    /\ Len(c_chan) > 0
    /\ c_got' = Append(c_got, [receiver |-> r, path |-> Head(c_chan)])
    /\ c_chan' = Tail(c_chan)
    /\ UNCHANGED <<c_cap, c_paths, c_pc, c_sent, c_rx>>
    /\ UNCHANGED notChannel

\* a blocking read of receiver r returns the error of a disconnected channel
RecvError(r) ==
    /\ c_rx[r] = "reading"
    /\ RecvDisconnected(c_chan, c_pc # "returned")
    /\ c_rx' = [c_rx EXCEPT ![r] = "returned"]
    /\ UNCHANGED <<c_cap, c_paths, c_pc, c_sent, c_chan, c_got>>
    /\ UNCHANGED notChannel

Receive == \E r \in 1..Len(c_rx) : Recv(r)

Disconnect == \E r \in 1..Len(c_rx) : RecvError(r)

ChannelNext == CreateReceiver \/ StartRun \/ Send \/ ReturnRun \/ Receive \/ Disconnect

SpecChannel == ChannelInit /\ [][ChannelNext]_vars

\* every thread that can take a step is scheduled: the thread of run and the
\* thread of each receiver
SpecChannelFair ==
    /\ SpecChannel
    /\ WF_vars(StartRun)
    /\ WF_vars(Send)
    /\ WF_vars(ReturnRun)
    /\ \A r \in 1..MaxReceivers : WF_vars(r <= Len(c_rx) /\ Recv(r))
    /\ \A r \in 1..MaxReceivers : WF_vars(r <= Len(c_rx) /\ RecvError(r))

\* run has sent every path and returned, and every receiver has returned
\* from its last read with every path received
WalkDelivered ==
    /\ c_pc = "returned"
    /\ c_sent = Len(c_paths)
    /\ \A r \in 1..Len(c_rx) : c_rx[r] = "returned"
    /\ c_rx # <<>> => {c_got[k].path : k \in 1..Len(c_got)} = Range(c_paths)

\* C22: for any number of discovered runs and any capacity, run eventually
\* sends every discovered path and returns, and every receiver eventually
\* returns from its blocking read; run never blocks forever on a full channel.
C22_AlwaysDelivered == <>[]WalkDelivered

\* C22, with a receiver that reads: once run is called with at least one
\* receiver created, run eventually sends every path and returns, and every
\* receiver receives and eventually returns from its blocking read.
C22_DeliveredToReaders == (c_pc = "running" /\ c_rx # <<>>) ~> []WalkDelivered

\* run had to wait for room in the channel, and everything was delivered
C22_Witness ==
    /\ WalkDelivered
    /\ c_rx # <<>>
    /\ Len(c_paths) > c_cap

\* the text has the form DD-DDDDD, with or without D- in front
WellFormedDna(text) ==
    /\ Len(Unprefixed(text)) = 8
    /\ CharAt(Unprefixed(text), 3) = "-"
    /\ \A k \in {1, 2, 4, 5, 6, 7, 8} : IsDigit(CharAt(Unprefixed(text), k))

\* the samples of the run of a call that pass its LIMS filter
LimsPool(a) == LimsFilter(SelectSeq(m_store, LAMBDA s : s.run = a.run), a.lims_id)

\* the samples of a pool whose normalized DNA number is that of the text
SameDna(pool, text) ==
    SelectSeq(pool, LAMBDA s : IsSupported(s.dna_nr)
                               /\ ClaimedNormalForm(s.dna_nr) = ClaimedNormalForm(text))

\* the calls of match_samples that reached the DNA filter with a number given
DnaCalls == {k \in 1..Len(m_calls) : IsSome(m_calls[k].args.dna_nr) /\ LimsPool(m_calls[k].args) # <<>>}

\* C23: a given DNA number narrows the pool only when it is well-formed
\* (DD-DDDDD, or D-DD-DDDDD): then exactly the samples with the same
\* normalized number remain, and an empty pool yields None; a number that is
\* not well-formed leaves the pool unchanged and yields neither None nor an
\* error.
C23_DnaNarrowsWhenWellFormed ==
    \A k \in DnaCalls :
        m_calls[k].res =
            IF WellFormedDna(Unwrap(m_calls[k].args.dna_nr))
            THEN MatchFromDna([status |-> "ok",
                               pool |-> SameDna(LimsPool(m_calls[k].args),
                                                Unwrap(m_calls[k].args.dna_nr))],
                              m_calls[k].args.primer_set, m_calls[k].args.name)
            ELSE MatchFromDna([status |-> "ok", pool |-> LimsPool(m_calls[k].args)],
                              m_calls[k].args.primer_set, m_calls[k].args.name)

\* the samples of the result that carry a name and hold a file
HoldersOf(result, name, file) ==
    {m \in 1..Len(result) : result[m].s.name = name /\ file \in Range(result[m].files)}

\* the path holds the names of the declared samples i and j, and the name of
\* i is strictly longer
LongerAndShorterIn(file, i, j) ==
    /\ Contains(file, samples[i].s.name)
    /\ Contains(file, samples[j].s.name)
    /\ Len(samples[i].s.name) > Len(samples[j].s.name)

\* C24: assign_fastqs takes the samples by descending name length: a file
\* whose path holds the names of two declared samples, one strictly longer
\* than the other, is assigned to the sample with the longer name and never
\* to the one with the shorter name.
C24_LongerNameTakesFile ==
    [][(a_pc = "parsed" /\ a_pc' = "done") =>
          \A i, j \in 1..Len(samples), k \in 1..Len(fastqs) :
              LongerAndShorterIn(fastqs[k], i, j) =>
                  /\ HoldersOf(samples', samples[i].s.name, fastqs[k]) # {}
                  /\ HoldersOf(samples', samples[j].s.name, fastqs[k]) = {}]_vars

\* the tuple that identifies a sample within its run
SampleKey(s) == <<s.name, s.dna_nr, s.primer_set, s.project>>

\* C25: after the assignment phase no two samples of the run share the tuple
\* (name, dna_nr, primer_set, project): an orphan file whose decomposition
\* equals the tuple of an existing sample is appended to that sample, and a
\* sample is synthesized only when no sample with the tuple exists.
C25_SampleKeysUnique ==
    a_pc = "done" =>
        \A a, b \in 1..Len(samples) :
            SampleKey(samples[a].s) = SampleKey(samples[b].s) => a = b

\* C25, amended: the declared samples stay, and no sample synthesized in the
\* assignment phase shares its tuple with another sample of the run: an
\* orphan file whose decomposition equals the tuple of an existing sample is
\* appended to such a sample.
C25_SynthesizedKeysUnique ==
    [][(a_pc = "parsed" /\ a_pc' = "done") =>
          /\ Len(samples') >= Len(samples)
          /\ \A a \in 1..Len(samples) : \E b \in 1..Len(samples) : samples'[b].s = samples[a].s
          /\ \A b \in (Len(samples) + 1)..Len(samples') :
                \A a \in 1..Len(samples') :
                    SampleKey(samples'[a].s) = SampleKey(samples'[b].s) => a = b]_vars

\* an orphan was appended to the declared sample with its tuple, and another
\* orphan made a synthesized sample
C25_Witness ==
    /\ a_pc = "done"
    /\ \E k \in 1..Len(samples) :
          /\ SampleKey(samples[k].s) = <<"21-123_FR1", Some("21-00123"), Some("FR1"), Some("data_p")>>
          /\ samples[k].s.run = RunName
          /\ samples[k].files = <<"data_p/21-123_FR1_S3_R.fastq.gz">>
    /\ \E m \in 1..Len(samples) : samples[m].s.name = "A" /\ samples[m].s.run # RunName

(***************************************************************************)
(* Specification of the choice of the cell sheet: the spikeINBC files of   *)
(* a run folder, in the order the walk yields them, and find_cellsheet on  *)
(* them.                                                                   *)
(***************************************************************************)
MaxCandidates == 3

CandidateNames ==
    { "spikeINBC.csv", "spikeINBC.txt", "20210806_spikeINBC.csv", "20210807_spikeINBC.csv",
      "20210806_M1_spikeINBC.csv", "202108061230_spikeINBC.csv", "0_spikeINBC.csv",
      "neu_spikeINBC.csv" }

Candidate(name) == [name |-> name, lines |-> <<>>]

CellsheetInit ==
    /\ k_cands \in DistinctSeqsUpTo({Candidate(n) : n \in CandidateNames}, MaxCandidates)
    /\ k_pc = "ready"
    /\ k_picked = None
    /\ AssignIdle
    /\ StoreIdle
    /\ MatchIdle
    /\ QueryIdle
    /\ ExportIdle
    /\ ExtractIdle
    /\ WalkIdle
    /\ RunIdle
    /\ DateIdle
    /\ DnaIdle
    /\ ChannelIdle

\* find_cellsheet of the run 210806_M1_0005 on the candidates
FindCellsheet ==
    /\ k_pc = "ready"
    /\ k_picked' = find_cellsheet([name |-> "210806_M1_0005"], k_cands).sheet
    /\ k_pc' = "done"
    /\ UNCHANGED k_cands
    /\ UNCHANGED notCellsheet

CellsheetNext == FindCellsheet

SpecCellsheet == CellsheetInit /\ [][CellsheetNext]_vars

\* the file name begins with a numeric date token: digits up to the first _
DateToken(name) ==
    IF FirstIndexFrom(name, "_", 1) = 0 THEN "" ELSE SubSeq(name, 1, FirstIndexFrom(name, "_", 1) - 1)

HasDateToken(name) == Len(DateToken(name)) > 0 /\ AllDigits(DateToken(name))

DatedCandidates == {k \in 1..Len(k_cands) : HasDateToken(k_cands[k].name)}

\* C26: in every order of the candidate cell sheets, if a candidate's file
\* name begins with a numeric date token then the chosen file is a dated
\* candidate with the greatest date; a candidate without a date token is
\* chosen only when no dated candidate exists.
C26_LatestDatedChosen ==
    (k_pc = "done" /\ DatedCandidates # {}) =>
        /\ k_picked # None
        /\ HasDateToken(Unwrap(k_picked).name)
        /\ \A k \in DatedCandidates :
              DigitsGeq(StripZeros(DateToken(Unwrap(k_picked).name)),
                        StripZeros(DateToken(k_cands[k].name)))

\* a step of vaultdb::update that executes statements on the store
StoreTouched == db' # db \/ next_id' # next_id

C28_RunIdsDistinct ==
    (IsSome(x_sheet) /\ "Sample" \notin x_overrides) =>
        \A i, j \in 1..Len(x_entries) :
            x_entries[i].model.run # x_entries[j].model.run =>
                /\ get_unique_run_id(x_entries[i]) # get_unique_run_id(x_entries[j])
                /\ x_entries[i].model.name = x_entries[j].model.name =>
                      Unwrap(x_sheet)[i + 1][1] # Unwrap(x_sheet)[j + 1][1]

\* the sample rows a fastq row names
OwnersOf(f) == {row \in db.sample : row.id = f.sample_id}

\* the in-memory samples of a built run that a sample row stands for and
\* that own the file
OwnedIn(r, row, filename) ==
    {k \in 1..Len(r.samples) :
        /\ [r.samples[k].s EXCEPT !.run = r.name] = row.s
        /\ filename \in Range(r.samples[k].files)}

\* C29: in every committed state of the store, after any sequence of flushes
\* and updates, successful or failed, every sample row names a run that has a
\* run row and every fastq row names a sample that has a sample row; a fastq
\* row is attached to the sample row of the in-memory sample that owned the
\* file.
C29_RowsReferToRows ==
    /\ \A row \in db.sample : \E r \in db.run : r.name = row.s.run
    /\ \A f \in db.fastq : Cardinality(OwnersOf(f)) = 1
    /\ u_pc = "done" =>
          \A r \in Range(BuiltRuns(u_built)) :
              /\ \A k \in 1..Len(r.samples) : \A name \in Range(r.samples[k].files) :
                    \E f \in db.fastq :
                        /\ f.filename = name
                        /\ \A row \in OwnersOf(f) : k \in OwnedIn(r, row, name)
              /\ \A f \in db.fastq : \A row \in OwnersOf(f) :
                    row.s.run = r.name => OwnedIn(r, row, f.filename) # {}

\* a second update failed in an insert after a first one had committed
\* samples with files, and the rows of the first are still there
C29_Witness ==
    /\ u_count >= 2
    /\ u_pc = "insert_panic"
    /\ db.fastq # {}
    /\ Cardinality(db.sample) >= 2

\* the sample rows of the store that belong to a run
RowsOfRun(name) == {row \in db.sample : row.s.run = name}

\* C30: the rows a successful update commits are the same for every
\* interleaving and completion order of the workers: the result of each
\* worker stands at the place of its path, every built run is committed, and
\* the sample rows are numbered in the order of the paths.
C30_RowsIndependentOfWorkers ==
    u_pc = "done" =>
        /\ \A i \in 1..Len(u_built) :
              u_built[i].status = "ok" =>
                  /\ u_built[i].run.path = u_paths[i].name
                  /\ RunRow(u_built[i].run) \in db.run
                  /\ Cardinality(RowsOfRun(u_built[i].run.name)) = Len(u_built[i].run.samples)
        /\ \A i, j \in 1..Len(u_built) :
              (i < j /\ u_built[i].status = "ok" /\ u_built[j].status = "ok") =>
                  \A a \in RowsOfRun(u_built[i].run.name), b \in RowsOfRun(u_built[j].run.name) :
                      a.id < b.id

\* an update committed two runs with samples, built by two workers
C30_Witness ==
    /\ u_pc = "done"
    /\ \E i, j \in 1..Len(u_built) :
          /\ i < j
          /\ u_built[i].status = "ok" /\ u_built[j].status = "ok"
          /\ RowsOfRun(u_built[i].run.name) # {}
          /\ RowsOfRun(u_built[j].run.name) # {}

====
